---- MODULE Spec2Model ----
(***************************************************************************)
(* Model of the ipfs-publisher: the scan-and-publish run (runScan) over    *)
(* the state manager and the NDJSON index manager, the index manager's     *)
(* own operations, the watcher's per-path debouncer and Watcher.Stop,      *)
(* main's periodic announcements, the PubSub Publisher, the state          *)
(* manager's Save, the lock file and the announcement message; and of the  *)
(* ipfs-indexer: its listener and its collection fetcher.                  *)
(***************************************************************************)
EXTENDS Integers, Sequences, FiniteSets, TLC

\* ------------------------------------------------------------------ bounds
MaxChanges == 2      \* filesystem changes made while the publisher is not running
MaxRuns == 3         \* process starts
MaxMtime == 2        \* modification times a file can carry
MaxData == 2         \* distinct file contents (the content also fixes the size)
MaxOps == 5          \* index manager operations in the index specification
MaxEvents == 3       \* filesystem notifications handled by the watcher
EventQueueSize == 1  \* capacity of the watcher's event channel in the model
MaxAnnounce == 2     \* ticks of the periodic announcement ticker per process
MaxCalls == 2        \* calls of Publisher.Announce
MaxSaves == 3        \* calls of the state manager's Save
MaxChunks == 2       \* writes it takes to put the whole state into a file
NProcs == 3          \* publisher processes started on one base directory
MaxKeys == 2         \* Ed25519 key pairs
MaxVersion == 2      \* largest version an announcement is composed with
MaxReceive == 2      \* messages the indexer's listener handles
MaxCollections == 1  \* rows of the indexer's collections table
MaxAttempts == 2     \* largest configured retry_attempts
MaxDownloads == 2     \* largest configured concurrent_downloads
MaxNameLen == 5      \* characters of a filename

\* ------------------------------------------------------------- filesystem
NoFile == [absent |-> TRUE]

\* Absolute paths under the watched root /m, in filepath.Walk (lexical) order.
ScanOrder == <<"/m/a.mp3", "/m/b.mp3", "/m/sub/a.mp3">>

Paths == {ScanOrder[i] : i \in 1..Len(ScanOrder)}

\* info.Name(): the basename of the path.
Name(p) == IF p = "/m/b.mp3" THEN "b.mp3" ELSE "a.mp3"

\* The lower-cased suffix after the final dot.
Extension(p) == "mp3"

\* The path relative to the watched root /m, with forward slashes.
RelPath(p) == IF p = "/m/sub/a.mp3" THEN "sub/a.mp3" ELSE Name(p)

FileVals == [mtime : 1..MaxMtime, data : 1..MaxData]

\* The values each file takes in the model: /m/a.mp3 is rewritten with any
\* modification time and content, the other two files keep one content.
FileValsOf(p) ==
    IF p = "/m/a.mp3" THEN FileVals
    ELSE IF p = "/m/b.mp3" THEN {[mtime |-> 1, data |-> MaxData]}
    ELSE {[mtime |-> 1, data |-> 1]}

\* info.Size(): the length of the content.
SizeOf(v) == v.data

\* The content address the network returns for a content.
CidOf(v) == v.data

\* An index file that does not exist, and one holding a set of lines.
NoIndexFile == [exists |-> FALSE, lines |-> {}]

IndexFileOf(lines) == [exists |-> TRUE, lines |-> lines]

NoCID == [kind |-> "none", content |-> {}]

\* The content address of an uploaded index file: a hash of its lines.
IndexCid(lines) == [kind |-> "index", content |-> lines]

\* The name handle of the node's "self" key.
IpnsName == "k51self"

VARIABLES
    fs,             \* the watched tree: path -> file value or NoFile
    stateFile,      \* state.json on disk: NoFile or a State
    indexFile,      \* collection.ndjson on disk: NoFile absent or a set of records
    state,          \* the state manager's in-memory State
    records,        \* the index manager's map filename -> Record
    nextID,         \* the index manager's next id
    pc,             \* where the process is in runScan
    processedCount, \* runScan's counter of uploaded files
    indexCID,       \* runScan's local indexCID
    hist,           \* history of the run, for stating properties
    assigned,       \* index specification: ids returned by Add so far
    lastAdd,        \* index specification: what the last operation did
    timers,         \* debouncer: key -> timer id, 0 when the map has no entry
    tstate,         \* debouncer: state of every timer created so far
    eventChan,      \* watcher: the buffered event channel
    wHist,          \* watcher: history of bursts and emissions
    announcer,      \* main's periodic announcer: ticks elapsed and messages published
    publisher,      \* Publisher: currentVersion, currentIPNS, collectionSize, lastTimestamp
    mu,             \* Publisher.mu, the RWMutex
    gor,            \* Publisher: where the caller of Announce and announceLoop are
    pubOut,         \* Publisher: the messages handed to node.Publish
    pubSnap,        \* Publisher: the field values that existed between two Announce calls
    disk,           \* state manager Save: the files state.json and state.json.tmp
    saver,          \* state manager Save: where Save is, what it writes, what it saved last
    lockFile,       \* lock file: absent, or its creator and the pid written in it
    procs,          \* lock file: every process's position in Acquire
    ann,            \* announcement message: composed, signed, serialized, parsed, verified
    indexer,        \* indexer: the collections its listener has stored
    cfg,            \* fetcher: retry_attempts and concurrent_downloads
    db,             \* fetcher: the rows of the collections table
    worker,         \* fetcher: where the worker goroutine is, and the list it walks
    semaphore,      \* fetcher: number of tokens in the semaphore channel
    fetches,        \* fetcher: the fetchCollection goroutines
    watcher,        \* watcher: how far Stop has come, and the state of the event channel
    filter,         \* filters: the last filename checked and what scanner and watcher decided
    loader          \* startup: whether the process is up, and the state its Load produced

scanVars == <<fs, stateFile, indexFile, state, records, nextID, pc,
              processedCount, indexCID, hist>>
indexApiVars == <<assigned, lastAdd>>
watchVars == <<timers, tstate, eventChan, wHist>>
announceVars == <<announcer>>
pubVars == <<publisher, mu, gor, pubOut, pubSnap>>
saveVars == <<disk, saver>>
lockVars == <<lockFile, procs>>
msgVars == <<ann>>
recvVars == <<indexer>>
fetchVars == <<cfg, db, worker, semaphore, fetches>>
stopVars == <<watcher>>
filterVars == <<filter>>
loadVars == <<loader>>
restVars == <<filterVars, loadVars>>
moreVars == <<fetchVars, stopVars, restVars>>
sideVars == <<pubVars, saveVars, lockVars, msgVars, recvVars, moreVars>>
vars == <<scanVars, indexApiVars, watchVars, announceVars, sideVars>>

\* ------------------------------------------------------------ small helpers
Max(S) == CHOOSE x \in S : \A y \in S : y <= x

EmptyMap == [x \in {} |-> 0]

\* ------------------------------------------------------- state manager
\* state.New: version 0, no files, empty IPNS and index address.
NewState == [Version |-> 0, IPNS |-> "", LastIndexCID |-> NoCID, Files |-> EmptyMap]

\* Manager.Load: an absent file leaves the fresh state, otherwise the
\* file's content replaces it.
StateLoad(file) == IF file = NoFile THEN NewState ELSE file

\* Manager.SetFile
SetFile(st, p, fstate) ==
    [st EXCEPT !.Files = [q \in DOMAIN st.Files \cup {p} |->
                             IF q = p THEN fstate ELSE st.Files[q]]]

IncrementVersion2(st) == [st EXCEPT !.Version = @ + 2]

\* Manager.IncrementVersion
IncrementVersion(st) == [st EXCEPT !.Version = @ + 1]

SetLastIndexCIDDropped(st, cid) == st

\* Manager.SetLastIndexCID
SetLastIndexCID(st, cid) == [st EXCEPT !.LastIndexCID = cid]

\* Manager.SetIPNS
SetIPNS(st, ipns) == [st EXCEPT !.IPNS = ipns]

\* ------------------------------------------------------- index manager
\* index.New: no records, nextID 1.
NewIndex == [records |-> EmptyMap, nextID |-> 1]

\* Manager.Load: every line is stored under its filename; nextID ends as
\* one more than the largest id read, and stays 1 for an absent or empty file.
IndexLoad(file) ==
    IF ~file.exists THEN NewIndex
    ELSE [records |-> [f \in {r.Filename : r \in file.lines} |->
                          CHOOSE r \in file.lines : r.Filename = f],
          nextID |-> Max({0} \cup {r.ID : r \in file.lines}) + 1]

\* Manager.Save: the file is rewritten with one line per record of the map.
IndexSave(recs) == IndexFileOf({recs[f] : f \in DOMAIN recs})

\* Manager.Add: the record takes nextID and is stored under its filename,
\* replacing whatever the map held under that filename.
IndexAdd(recs, nid, filename, cid, ext) ==
    LET record == [ID |-> nid, CID |-> cid, Filename |-> filename, Extension |-> ext]
    IN [records |-> [f \in DOMAIN recs \cup {filename} |->
                        IF f = filename THEN record ELSE recs[f]],
        nextID |-> nid + 1,
        record |-> record]

IndexUpdateReassigning(recs, filename, cid) ==
    IF filename \in DOMAIN recs
    THEN [recs EXCEPT ![filename].CID = cid, ![filename].ID = @ + 1]
    ELSE recs

\* Manager.Update: sets the CID of the record under filename; an unknown
\* filename is an error that leaves the map as it is.
IndexUpdate(recs, filename, cid) ==
    IF filename \in DOMAIN recs
    THEN [recs EXCEPT ![filename].CID = cid]
    ELSE recs

IndexDeleteRenumbering(recs, filename) ==
    [f \in DOMAIN recs \ {filename} |->
        [recs[f] EXCEPT !.ID = IF filename \in DOMAIN recs /\ @ > recs[filename].ID
                                THEN @ - 1 ELSE @]]

\* Manager.Delete: removes the record under filename, if there is one.
IndexDelete(recs, filename) == [f \in DOMAIN recs \ {filename} |-> recs[f]]

\* Manager.Count
Count(recs) == Cardinality(DOMAIN recs)


\* ------------------------------------------------------------- scanner
\* Scanner.Scan: the files present under the root, in walk order.
Scan(f) == SelectSeq(ScanOrder, LAMBDA p : f[p] # NoFile)

\* ------------------------------------------------------------- runScan
FileUnchangedInverted(st, p, v) ==
    /\ p \in DOMAIN st.Files
    /\ st.Files[p].ModTime # v.mtime
    /\ st.Files[p].Size = SizeOf(v)

\* The test at the head of runScan's loop: the file is in state with the
\* same modification time and the same size.
FileUnchanged(st, p, v) ==
    /\ p \in DOMAIN st.Files
    /\ st.Files[p].ModTime = v.mtime
    /\ st.Files[p].Size = SizeOf(v)

\* The scanned files the loop does not skip.
NeedsUpload(st, f) == {p \in Paths : f[p] # NoFile /\ ~FileUnchanged(st, p, f[p])}

ProcessFileRecordingFailure(acc, p, v, openFail, addFail) ==
    LET exists == p \in DOMAIN acc.state.Files IN
    IF FileUnchanged(acc.state, p, v)
    THEN [acc EXCEPT !.skippedCount = @ + 1]
    ELSE IF p \in openFail
    THEN [acc EXCEPT !.errorCount = @ + 1]
    ELSE IF p \in addFail
    THEN [acc EXCEPT !.errorCount = @ + 1, !.addCalls = @ \cup {p},
                     !.state = SetFile(@, p, [CID |-> 0, ModTime |-> v.mtime,
                                              Size |-> SizeOf(v), IndexID |-> 0])]
    ELSE IF exists
    THEN [acc EXCEPT !.records = IndexUpdate(@, Name(p), CidOf(v)),
                     !.processedCount = @ + 1,
                     !.addCalls = @ \cup {p}]
    ELSE LET a == IndexAdd(acc.records, acc.nextID, Name(p), CidOf(v), Extension(p)) IN
         [acc EXCEPT !.records = a.records,
                     !.nextID = a.nextID,
                     !.state = SetFile(@, p, [CID |-> CidOf(v), ModTime |-> v.mtime,
                                              Size |-> SizeOf(v), IndexID |-> a.record.ID]),
                     !.processedCount = @ + 1,
                     !.addCalls = @ \cup {p}]

\* One iteration of runScan's loop for file p with value v. openFail and
\* addFail are the files whose os.Open and whose upload fail in this run.
ProcessFile(acc, p, v, openFail, addFail) ==
    LET exists == p \in DOMAIN acc.state.Files IN
    IF FileUnchanged(acc.state, p, v)
    THEN [acc EXCEPT !.skippedCount = @ + 1]
    ELSE IF p \in openFail
    THEN [acc EXCEPT !.errorCount = @ + 1]
    ELSE IF p \in addFail
    THEN [acc EXCEPT !.errorCount = @ + 1, !.addCalls = @ \cup {p}]
    ELSE IF exists
    THEN [acc EXCEPT !.records = IndexUpdate(@, Name(p), CidOf(v)),
                     !.processedCount = @ + 1,
                     !.addCalls = @ \cup {p}]
    ELSE LET a == IndexAdd(acc.records, acc.nextID, Name(p), CidOf(v), Extension(p)) IN
         [acc EXCEPT !.records = a.records,
                     !.nextID = a.nextID,
                     !.state = SetFile(@, p, [CID |-> CidOf(v), ModTime |-> v.mtime,
                                              Size |-> SizeOf(v), IndexID |-> a.record.ID]),
                     !.processedCount = @ + 1,
                     !.addCalls = @ \cup {p}]

RECURSIVE ProcessFiles(_, _, _, _, _)
\* runScan's loop "for _, file := range files".
ProcessFiles(files, f, acc, openFail, addFail) ==
    IF files = <<>> THEN acc
    ELSE ProcessFiles(Tail(files), f,
                      ProcessFile(acc, Head(files), f[Head(files)], openFail, addFail),
                      openFail, addFail)

\* What a run remembers about itself, reset at every process start.
NewRun(h) ==
    [h EXCEPT !.addCalls = {}, !.failed = FALSE, !.ipnsFailed = FALSE,
              !.ipnsCalls = <<>>,
              !.indexSaved = FALSE, !.indexUploaded = FALSE, !.saved = FALSE,
              !.cleanStart = h.prevClean, !.recovering = h.crashIndex,
              !.startFiles = IF stateFile = NoFile THEN EmptyMap ELSE stateFile.Files,
              !.runs = @ + 1]

\* What is left of it once the process has ended.
EndRun(h) ==
    [h EXCEPT !.addCalls = {}, !.failed = FALSE, !.ipnsFailed = FALSE,
              !.ipnsCalls = <<>>,
              !.indexSaved = FALSE, !.indexUploaded = FALSE, !.saved = FALSE,
              !.cleanStart = FALSE, !.recovering = NoIndexFile,
              !.startFiles = EmptyMap]

\* The announcer of a process that has just started: no tick yet and
\* nothing published.
NewAnnouncer == [clock |-> 0, published |-> <<>>]

InitHist ==
    [addCalls |-> {}, failed |-> FALSE, ipnsFailed |-> FALSE, indexSaved |-> FALSE,
     indexUploaded |-> FALSE, saved |-> FALSE, cleanStart |-> FALSE,
     recovering |-> NoIndexFile, startFiles |-> EmptyMap, prevClean |-> FALSE, crashIndex |-> NoIndexFile,
     runs |-> 0, changes |-> 0, ipnsCalls |-> <<>>]

ScanInit ==
    /\ fs = [p \in Paths |-> NoFile]
    /\ stateFile = NoFile
    /\ indexFile = NoIndexFile
    /\ state = NewState
    /\ records = NewIndex.records
    /\ nextID = NewIndex.nextID
    /\ pc = "off"
    /\ processedCount = 0
    /\ indexCID = NoCID
    /\ hist = InitHist
    /\ announcer = NewAnnouncer

\* A file is created, rewritten or removed while the publisher is not running.
FsChange(p, v) ==
    /\ pc = "off"
    /\ hist.changes < MaxChanges
    /\ v # fs[p]
    /\ fs' = [fs EXCEPT ![p] = v]
    /\ hist' = [hist EXCEPT !.changes = @ + 1, !.prevClean = FALSE, !.crashIndex = NoIndexFile]
    /\ UNCHANGED <<stateFile, indexFile, state, records, nextID, pc, processedCount, indexCID>>
    /\ UNCHANGED <<indexApiVars, watchVars, announceVars, sideVars>>

\* runScan, "if len(files) == 0 { return nil }": nothing is loaded.
StartNoFiles ==
    /\ pc = "off"
    /\ hist.runs < MaxRuns
    /\ Scan(fs) = <<>>
    /\ pc' = "done"
    /\ hist' = NewRun(hist)
    /\ UNCHANGED <<fs, stateFile, indexFile, state, records, nextID, processedCount, indexCID>>
    /\ UNCHANGED <<indexApiVars, watchVars, announceVars, sideVars>>

\* runScan from the scan to the end of the file loop: the state and the
\* index are loaded and every scanned file is skipped, uploaded or fails.
ProcessScan(openFail, addFail) ==
    /\ pc = "off"
    /\ hist.runs < MaxRuns
    /\ Scan(fs) # <<>>
    /\ openFail \subseteq NeedsUpload(StateLoad(stateFile), fs)
    /\ addFail \subseteq NeedsUpload(StateLoad(stateFile), fs) \ openFail
    /\ LET idx == IndexLoad(indexFile)
           acc == ProcessFiles(Scan(fs), fs,
                               [state |-> StateLoad(stateFile), records |-> idx.records,
                                nextID |-> idx.nextID, processedCount |-> 0,
                                skippedCount |-> 0, errorCount |-> 0, addCalls |-> {}],
                               openFail, addFail)
       IN /\ state' = acc.state
          /\ records' = acc.records
          /\ nextID' = acc.nextID
          /\ processedCount' = acc.processedCount
          /\ hist' = [NewRun(hist) EXCEPT !.addCalls = acc.addCalls, !.failed = (acc.errorCount > 0)]
    /\ pc' = "saveIndex"
    /\ UNCHANGED <<fs, stateFile, indexFile, indexCID>>
    /\ UNCHANGED <<indexApiVars, watchVars, announceVars, sideVars>>

\* runScan, "if processedCount > 0": indexMgr.Save rewrites the index file.
SaveIndex ==
    /\ pc = "saveIndex"
    /\ processedCount > 0
    /\ indexFile' = IndexSave(records)
    /\ hist' = [hist EXCEPT !.indexSaved = TRUE, !.addCalls = {}]
    /\ pc' = "uploadIndex"
    /\ UNCHANGED <<fs, stateFile, state, records, nextID, processedCount, indexCID>>
    /\ UNCHANGED <<indexApiVars, watchVars, announceVars, sideVars>>

\* runScan, the else branch: the last index address is used again, and
\* the run ends when there is none.
NoChanges ==
    /\ pc = "saveIndex"
    /\ processedCount = 0
    /\ indexCID' = state.LastIndexCID
    /\ pc' = IF state.LastIndexCID = NoCID THEN "done" ELSE "publishIPNS"
    /\ hist' = [hist EXCEPT !.addCalls = {}]
    /\ UNCHANGED <<fs, stateFile, indexFile, state, records, nextID, processedCount>>
    /\ UNCHANGED <<indexApiVars, watchVars, announceVars, sideVars>>

\* runScan, upload of the index file: on success the address is recorded
\* and the version incremented; on failure runScan returns the error and
\* main ends the process.
UploadIndex(ok) ==
    /\ pc = "uploadIndex"
    /\ IF ok
       THEN /\ indexCID' = IndexCid(indexFile.lines)
            /\ state' = IncrementVersion(SetLastIndexCID(state, IndexCid(indexFile.lines)))
            /\ hist' = [hist EXCEPT !.indexUploaded = TRUE]
            /\ pc' = "publishIPNS"
            /\ UNCHANGED <<records, nextID, processedCount>>
       ELSE /\ pc' = "off"
            /\ state' = NewState
            /\ records' = NewIndex.records
            /\ nextID' = NewIndex.nextID
            /\ processedCount' = 0
            /\ indexCID' = NoCID
            /\ hist' = [EndRun(hist) EXCEPT !.prevClean = FALSE, !.crashIndex = indexFile]
    /\ UNCHANGED <<fs, stateFile, indexFile>>
    /\ UNCHANGED <<indexApiVars, watchVars, announceVars, sideVars>>

\* ipfs.IPNSPublishOptions as runScan fills it for its two calls.
IPNSPublishOptions(allowOffline) ==
    [Key |-> "self", Lifetime |-> "24h", TTL |-> "1h", AllowOffline |-> allowOffline]

\* The options of the first call: "Try to publish to DHT".
FirstOptions == IPNSPublishOptions(FALSE)

RetryOptionsOnline == IPNSPublishOptions(FALSE)

\* The options of the call made when the first one failed.
RetryOptions == IPNSPublishOptions(TRUE)

\* ipfsClient.PublishIPNS as the run sees it: the call is recorded with
\* its options and its outcome.
IPNSCall(h, opts, ok) ==
    [h EXCEPT !.ipnsCalls = Append(@, [opts |-> opts, ok |-> ok])]

\* runScan, first PublishIPNS call (AllowOffline false).
PublishIPNS(ok) ==
    /\ pc = "publishIPNS"
    /\ IF ok
       THEN /\ state' = SetIPNS(state, IpnsName)
            /\ pc' = "saveState"
       ELSE /\ pc' = "retryIPNS"
            /\ UNCHANGED state
    /\ hist' = IPNSCall(hist, FirstOptions, ok)
    /\ UNCHANGED <<fs, stateFile, indexFile, records, nextID, processedCount, indexCID>>
    /\ UNCHANGED <<indexApiVars, watchVars, announceVars, sideVars>>

\* runScan, second PublishIPNS call (AllowOffline true): when it fails
\* too, runScan returns nil.
RetryIPNS(ok) ==
    /\ pc = "retryIPNS"
    /\ IF ok
       THEN /\ state' = SetIPNS(state, IpnsName)
            /\ pc' = "saveState"
            /\ hist' = IPNSCall(hist, RetryOptions, ok)
       ELSE /\ pc' = "done"
            /\ hist' = [IPNSCall(hist, RetryOptions, ok) EXCEPT !.ipnsFailed = TRUE]
            /\ UNCHANGED state
    /\ UNCHANGED <<fs, stateFile, indexFile, records, nextID, processedCount, indexCID>>
    /\ UNCHANGED <<indexApiVars, watchVars, announceVars, sideVars>>

\* runScan, stateManager.Save, then return nil.
SaveState ==
    /\ pc = "saveState"
    /\ stateFile' = state
    /\ hist' = [hist EXCEPT !.saved = TRUE]
    /\ pc' = "done"
    /\ UNCHANGED <<fs, indexFile, state, records, nextID, processedCount, indexCID>>
    /\ UNCHANGED <<indexApiVars, watchVars, announceVars, sideVars>>

\* The process ends, by a signal (main's handler releases the lock and
\* exits) or by a crash; everything held in memory is gone.
Stop ==
    /\ pc # "off"
    /\ pc' = "off"
    /\ state' = NewState
    /\ records' = NewIndex.records
    /\ nextID' = NewIndex.nextID
    /\ processedCount' = 0
    /\ indexCID' = NoCID
    /\ hist' = [EndRun(hist) EXCEPT
                  !.prevClean = (pc = "done" /\ hist.saved /\ ~hist.failed),
                  !.crashIndex = IF hist.indexSaved /\ ~hist.saved THEN indexFile ELSE NoIndexFile]
    /\ announcer' = NewAnnouncer
    /\ UNCHANGED <<fs, stateFile, indexFile>>
    /\ UNCHANGED <<indexApiVars, watchVars, sideVars>>

ScanNext ==
    \/ \E p \in Paths : \E v \in FileValsOf(p) \cup {NoFile} : FsChange(p, v)
    \/ StartNoFiles
    \/ \E openFail \in SUBSET Paths, addFail \in SUBSET Paths : ProcessScan(openFail, addFail)
    \/ SaveIndex
    \/ NoChanges
    \/ \E ok \in BOOLEAN : UploadIndex(ok)
    \/ \E ok \in BOOLEAN : PublishIPNS(ok)
    \/ \E ok \in BOOLEAN : RetryIPNS(ok)
    \/ SaveState
    \/ Stop


\* ------------------------------------------- main's periodic announcements
\* pubsub.NewAnnouncementMessage with the arguments runPeriodicAnnouncements
\* passes to publishAnnouncementViaStandalone / ViaIPFS: the version and the
\* name of the loaded state, the number of files of the loaded state, and
\* time.Now().
HeartbeatMessageBumped(st, now) ==
    [version |-> st.Version + now, ipns |-> st.IPNS,
     collectionSize |-> Cardinality(DOMAIN st.Files), timestamp |-> now]

HeartbeatMessage(st, now) ==
    [version |-> st.Version, ipns |-> st.IPNS,
     collectionSize |-> Cardinality(DOMAIN st.Files), timestamp |-> now]

PeriodicAnnouncementUnguarded ==
    /\ pc = "done"
    /\ announcer.clock < MaxAnnounce
    /\ LET now == announcer.clock + 1
           st == StateLoad(stateFile)
       IN announcer' = [clock |-> now,
                        published |-> Append(announcer.published,
                                             HeartbeatMessage(st, now))]
    /\ UNCHANGED <<scanVars, indexApiVars, watchVars, sideVars>>

\* One tick of the ticker in runPeriodicAnnouncementsStandalone / Embedded,
\* which main starts after runScan has returned: state.json is loaded into
\* a fresh manager; with no name in it the tick is skipped, otherwise the
\* message is composed, signed and published. Time is counted in ticks
\* since the process started.
PeriodicAnnouncement ==
    /\ pc = "done"
    /\ announcer.clock < MaxAnnounce
    /\ LET now == announcer.clock + 1
           st == StateLoad(stateFile)
       IN announcer' = [clock |-> now,
                        published |-> IF st.IPNS = "" THEN announcer.published
                                      ELSE Append(announcer.published,
                                                  HeartbeatMessage(st, now))]
    /\ UNCHANGED <<scanVars, indexApiVars, watchVars, sideVars>>

AnnounceNext ==
    \/ ScanNext
    \/ PeriodicAnnouncement


\* --------------------------------------- the index manager used on its own
Filenames == {"a.mp3", "b.mp3"}

otherScanVars == <<fs, stateFile, state, pc, processedCount, indexCID, hist>>

ApiInit ==
    /\ assigned = {}
    /\ lastAdd = [op |-> "none", id |-> 0, before |-> {}, n |-> 0]

\* Manager.Add called by a client of the index.
ApiAdd(filename, cid) ==
    /\ lastAdd.n < MaxOps
    /\ LET a == IndexAdd(records, nextID, filename, cid, "mp3") IN
       /\ records' = a.records
       /\ nextID' = a.nextID
       /\ assigned' = assigned \cup {a.record.ID}
       /\ lastAdd' = [op |-> "Add", id |-> a.record.ID, before |-> assigned,
                      n |-> lastAdd.n + 1]
    /\ UNCHANGED <<indexFile, otherScanVars, watchVars, announceVars, sideVars>>

\* Manager.Update called by a client of the index.
ApiUpdate(filename, cid) ==
    /\ lastAdd.n < MaxOps
    /\ records' = IndexUpdate(records, filename, cid)
    /\ lastAdd' = [op |-> "Update", id |-> 0, before |-> assigned, n |-> lastAdd.n + 1]
    /\ UNCHANGED <<nextID, assigned, indexFile, otherScanVars, watchVars, announceVars, sideVars>>

\* Manager.Delete called by a client of the index.
ApiDelete(filename) ==
    /\ lastAdd.n < MaxOps
    /\ records' = IndexDelete(records, filename)
    /\ lastAdd' = [op |-> "Delete", id |-> 0, before |-> assigned, n |-> lastAdd.n + 1]
    /\ UNCHANGED <<nextID, assigned, indexFile, otherScanVars, watchVars, announceVars, sideVars>>

\* Manager.Save called by a client of the index.
ApiSave ==
    /\ lastAdd.n < MaxOps
    /\ indexFile' = IndexSave(records)
    /\ lastAdd' = [op |-> "Save", id |-> 0, before |-> assigned, n |-> lastAdd.n + 1]
    /\ UNCHANGED <<records, nextID, assigned, otherScanVars, watchVars, announceVars, sideVars>>

\* A process restart between Save and Load: the process ends after a
\* Save, and the next one runs index.New followed by Manager.Load.
ApiRestart ==
    /\ lastAdd.n < MaxOps
    /\ lastAdd.op = "Save"
    /\ records' = IndexLoad(indexFile).records
    /\ nextID' = IndexLoad(indexFile).nextID
    /\ lastAdd' = [op |-> "Load", id |-> 0, before |-> assigned, n |-> lastAdd.n + 1]
    /\ UNCHANGED <<assigned, indexFile, otherScanVars, watchVars, announceVars, sideVars>>

IndexNext ==
    \/ \E f \in Filenames, c \in 1..MaxData : ApiAdd(f, c)
    \/ \E f \in Filenames, c \in 1..MaxData : ApiUpdate(f, c)
    \/ \E f \in Filenames : ApiDelete(f)
    \/ ApiSave
    \/ ApiRestart


\* ------------------------------------------------- watcher and debouncer
\* The paths the notifications are about (the debouncer's keys).
WKeys == {"/m/a.mp3", "/m/b.mp3"}

\* The bits of fsnotify.Op.
OpBits == {"CREATE", "WRITE", "REMOVE", "RENAME", "CHMOD"}

\* The fsnotify.Op a notification can carry, a set of bits: one operation,
\* or a rename reported together with another operation on the file.
Ops == {{b} : b \in OpBits} \cup {{"RENAME", b} : b \in OpBits}

\* Watcher.handleEvent, "Determine event type": the bits are tested in the
\* order Create, Write, Remove, Rename.
EventTypeOf(op) ==
    IF "CREATE" \in op THEN "EventCreate"
    ELSE IF "WRITE" \in op THEN "EventModify"
    ELSE IF "REMOVE" \in op THEN "EventDelete"
    ELSE IF "RENAME" \in op THEN "EventDelete"
    ELSE "ignored"

WatchInit ==
    /\ timers = [k \in WKeys |-> 0]
    /\ tstate = <<>>
    /\ eventChan = <<>>
    /\ wHist = [events |-> 0, bursts |-> 0, last |-> [k \in WKeys |-> 0], emitted |-> <<>>]

\* timer.Stop(): an armed timer is cancelled; one that has already expired
\* is not affected.
StopTimer(ts, t) ==
    IF t # 0 /\ ts[t].st = "armed" THEN [ts EXCEPT ![t].st = "stopped"] ELSE ts

\* Watcher.handleEvent for a notification of a media file, with
\* debouncer.debounce: the timer in the map under the key is stopped and a
\* new timer takes its place. The event belongs to the burst of the
\* previous event on the key when that event's delay has not yet elapsed.
HandleEvent(key, op) ==
    /\ wHist.events < MaxEvents
    /\ IF EventTypeOf(op) = "ignored"
       THEN /\ wHist' = [wHist EXCEPT !.events = @ + 1]
            /\ UNCHANGED <<timers, tstate>>
       ELSE LET id == Len(tstate) + 1
                prev == wHist.last[key]
                inWindow == prev # 0 /\ tstate[prev].st = "armed"
                burst == IF inWindow THEN tstate[prev].burst ELSE wHist.bursts + 1
            IN /\ tstate' = Append(StopTimer(tstate, timers[key]),
                                   [key |-> key, kind |-> EventTypeOf(op),
                                    st |-> "armed", burst |-> burst])
               /\ timers' = [timers EXCEPT ![key] = id]
               /\ wHist' = [wHist EXCEPT !.events = @ + 1,
                                         !.bursts = IF inWindow THEN @ ELSE @ + 1,
                                         !.last[key] = id]
    /\ UNCHANGED <<eventChan, scanVars, indexApiVars, announceVars, sideVars>>

\* The delay of timer t elapses: the runtime starts its callback.
TimerExpire(t) ==
    /\ t \in 1..Len(tstate)
    /\ tstate[t].st = "armed"
    /\ tstate' = [tstate EXCEPT ![t].st = "running"]
    /\ UNCHANGED <<timers, eventChan, wHist, scanVars, indexApiVars, announceVars, sideVars>>

\* The timers created for the events of burst b.
TimersOf(ts, b) == {u \in 1..Len(ts) : ts[u].burst = b}

FileEventOfFirst(ts, t) ==
    [Path |-> ts[t].key,
     EventType |-> ts[CHOOSE u \in TimersOf(ts, ts[t].burst) :
                         \A v \in TimersOf(ts, ts[t].burst) : u <= v].kind]

\* The FileEvent the closure of timer t sends: the name and the event type
\* of the notification the timer was created for.
FileEventOf(ts, t) == [Path |-> ts[t].key, EventType |-> ts[t].kind]

\* The callback's fn(): the FileEvent is sent on the event channel; the
\* send blocks while the channel is full.
CallbackSend(t) ==
    /\ t \in 1..Len(tstate)
    /\ tstate[t].st = "running"
    /\ ~watcher.closed
    /\ Len(eventChan) < EventQueueSize
    /\ eventChan' = Append(eventChan, FileEventOf(tstate, t))
    /\ tstate' = [tstate EXCEPT ![t].st = "sent"]
    /\ wHist' = [wHist EXCEPT !.emitted = Append(@, t)]
    /\ UNCHANGED <<timers, scanVars, indexApiVars, announceVars, sideVars>>

\* The rest of the callback: under the mutex, delete(d.timers, key).
CallbackFinish(t) ==
    /\ t \in 1..Len(tstate)
    /\ tstate[t].st = "sent"
    /\ timers' = [timers EXCEPT ![tstate[t].key] = 0]
    /\ tstate' = [tstate EXCEPT ![t].st = "done"]
    /\ UNCHANGED <<eventChan, wHist, scanVars, indexApiVars, announceVars, sideVars>>

\* The consumer of Watcher.Events() takes the next event.
Receive ==
    /\ eventChan # <<>>
    /\ eventChan' = Tail(eventChan)
    /\ UNCHANGED <<timers, tstate, wHist, scanVars, indexApiVars, announceVars, sideVars>>

WatchNext ==
    \/ \E k \in WKeys, op \in Ops : HandleEvent(k, op)
    \/ \E t \in 1..MaxEvents : TimerExpire(t)
    \/ \E t \in 1..MaxEvents : CallbackSend(t)
    \/ \E t \in 1..MaxEvents : CallbackFinish(t)
    \/ Receive

\* The watcher with notifications on one path only.
DebounceNext ==
    \/ \E op \in Ops : HandleEvent("/m/a.mp3", op)
    \/ \E t \in 1..MaxEvents : TimerExpire(t)
    \/ \E t \in 1..MaxEvents : CallbackSend(t)
    \/ \E t \in 1..MaxEvents : CallbackFinish(t)
    \/ Receive

\* ------------------------------------------------------- Watcher.Stop
\* Start has run: the watcher is started and the event channel is open.
StopInit == watcher = [pc |-> "started", closed |-> FALSE, sentOnClosed |-> FALSE]

\* Stop takes w.mu, finds the watcher started and closes the fsnotify
\* watcher: no further notification is handled.
StopCloseNotify ==
    /\ watcher.pc = "started"
    /\ watcher' = [watcher EXCEPT !.pc = "closeChan"]
    /\ UNCHANGED <<watchVars, scanVars, indexApiVars, announceVars, pubVars, saveVars,
                   lockVars, msgVars, recvVars, fetchVars, restVars>>

\* Stop, close(w.eventChan).
StopCloseChan ==
    /\ watcher.pc = "closeChan"
    /\ watcher' = [watcher EXCEPT !.pc = "stopTimers", !.closed = TRUE]
    /\ UNCHANGED <<watchVars, scanVars, indexApiVars, announceVars, pubVars, saveVars,
                   lockVars, msgVars, recvVars, fetchVars, restVars>>

RECURSIVE StopAll(_, _, _)
\* debouncer.stop, the loop: timer.Stop() on every timer of the map.
StopAll(ts, tm, keys) ==
    IF keys = {} THEN ts
    ELSE LET k == CHOOSE x \in keys : TRUE
         IN StopAll(StopTimer(ts, tm[k]), tm, keys \ {k})

\* Stop, w.debouncer.stop(): the timers of the map are stopped and the map
\* is replaced by an empty one; then started is reset and Stop returns.
DebouncerStop ==
    /\ watcher.pc = "stopTimers"
    /\ tstate' = StopAll(tstate, timers, WKeys)
    /\ timers' = [k \in WKeys |-> 0]
    /\ watcher' = [watcher EXCEPT !.pc = "stopped"]
    /\ UNCHANGED <<eventChan, wHist, scanVars, indexApiVars, announceVars, pubVars,
                   saveVars, lockVars, msgVars, recvVars, fetchVars, restVars>>

\* The callback's fn() when the event channel has been closed: the send,
\* whether it was blocked on the full channel or only now starts, panics.
SendOnClosed(t) ==
    /\ t \in 1..Len(tstate)
    /\ tstate[t].st = "running"
    /\ watcher.closed
    /\ tstate' = [tstate EXCEPT ![t].st = "panic"]
    /\ watcher' = [watcher EXCEPT !.sentOnClosed = TRUE]
    /\ UNCHANGED <<timers, eventChan, wHist, scanVars, indexApiVars, announceVars, pubVars,
                   saveVars, lockVars, msgVars, recvVars, fetchVars, restVars>>

\* processEvents: a notification is taken from w.watcher.Events, which
\* delivers until the fsnotify watcher is closed, and handled.
ProcessEvents(key, op) ==
    /\ watcher.pc = "started"
    /\ HandleEvent(key, op)

\* The watcher with Stop: notifications are handled until the fsnotify
\* watcher is closed; timers and their callbacks go on.
WatchStopNext ==
    \/ \E k \in WKeys, op \in Ops : ProcessEvents(k, op)
    \/ \E t \in 1..MaxEvents : TimerExpire(t)
    \/ \E t \in 1..MaxEvents : CallbackSend(t)
    \/ \E t \in 1..MaxEvents : SendOnClosed(t)
    \/ \E t \in 1..MaxEvents : CallbackFinish(t)
    \/ Receive
    \/ StopCloseNotify
    \/ StopCloseChan
    \/ DebouncerStop

\* ------------------------------------------------- the PubSub Publisher
\* The goroutines using the Publisher: the caller of Announce (the sync
\* engine) and announceLoop.
Goroutines == {"sync", "loop"}

\* The names Announce is called with; "" is a caller that has no name yet.
AnnounceNames == {"", IpnsName}

\* NewPublisher followed by Start: zero fields, the mutex free, the loop
\* waiting in its select.
PubInit ==
    /\ publisher = [currentVersion |-> 0, currentIPNS |-> "", collectionSize |-> 0,
                    lastTimestamp |-> 0]
    /\ mu = [writer |-> "none", readers |-> {}, pending |-> {}]
    /\ gor = [pc |-> [g \in Goroutines |-> IF g = "loop" THEN "select" ELSE "idle"],
              ipns |-> "", size |-> 0, now |-> 0, ticks |-> 0]
    /\ pubOut = <<>>
    /\ pubSnap = {[version |-> 0, ipns |-> "", collectionSize |-> 0, timestamp |-> 0]}

CanLockAlways(m) == TRUE

\* sync.RWMutex.Lock returns once no writer and no reader holds the mutex.
CanLock(m) == m.writer = "none" /\ m.readers = {}

\* sync.RWMutex.RLock returns once no writer holds or waits for the mutex.
CanRLock(m) == m.writer = "none" /\ m.pending = {}

\* NewAnnouncementMessage(p.currentVersion, p.currentIPNS, p.collectionSize,
\* p.lastTimestamp) in publishCurrentLocked.
CurrentMessage(p) ==
    [version |-> p.currentVersion, ipns |-> p.currentIPNS,
     collectionSize |-> p.collectionSize, timestamp |-> p.lastTimestamp]

\* Announce is called: the caller enters p.mu.Lock().
AnnounceCall(ipns, size) ==
    /\ gor.pc["sync"] = "idle"
    /\ gor.now < MaxCalls
    /\ gor' = [gor EXCEPT !.pc["sync"] = "lock", !.ipns = ipns, !.size = size,
                          !.now = @ + 1]
    /\ mu' = [mu EXCEPT !.pending = @ \cup {"sync"}]
    /\ UNCHANGED <<publisher, pubOut, pubSnap>>
    /\ UNCHANGED <<scanVars, indexApiVars, watchVars, announceVars, saveVars, lockVars, msgVars, recvVars, moreVars>>

\* p.mu.Lock() returns, in Announce or in publishCurrent.
MuLock(g) ==
    /\ gor.pc[g] = "lock"
    /\ CanLock(mu)
    /\ mu' = [mu EXCEPT !.writer = g, !.pending = @ \ {g}]
    /\ gor' = [gor EXCEPT !.pc[g] = IF g = "sync" THEN "setVersion" ELSE "publish"]
    /\ UNCHANGED <<publisher, pubOut, pubSnap>>
    /\ UNCHANGED <<scanVars, indexApiVars, watchVars, announceVars, saveVars, lockVars, msgVars, recvVars, moreVars>>

\* Announce, "p.currentVersion++".
AnnounceSetVersion ==
    /\ gor.pc["sync"] = "setVersion"
    /\ publisher' = [publisher EXCEPT !.currentVersion = @ + 1]
    /\ gor' = [gor EXCEPT !.pc["sync"] = "setIPNS"]
    /\ UNCHANGED <<mu, pubOut, pubSnap>>
    /\ UNCHANGED <<scanVars, indexApiVars, watchVars, announceVars, saveVars, lockVars, msgVars, recvVars, moreVars>>

\* Announce, "p.currentIPNS = ipns".
AnnounceSetIPNS ==
    /\ gor.pc["sync"] = "setIPNS"
    /\ publisher' = [publisher EXCEPT !.currentIPNS = gor.ipns]
    /\ gor' = [gor EXCEPT !.pc["sync"] = "setSize"]
    /\ UNCHANGED <<mu, pubOut, pubSnap>>
    /\ UNCHANGED <<scanVars, indexApiVars, watchVars, announceVars, saveVars, lockVars, msgVars, recvVars, moreVars>>

\* Announce, "p.collectionSize = collectionSize".
AnnounceSetSize ==
    /\ gor.pc["sync"] = "setSize"
    /\ publisher' = [publisher EXCEPT !.collectionSize = gor.size]
    /\ gor' = [gor EXCEPT !.pc["sync"] = "setTimestamp"]
    /\ UNCHANGED <<mu, pubOut, pubSnap>>
    /\ UNCHANGED <<scanVars, indexApiVars, watchVars, announceVars, saveVars, lockVars, msgVars, recvVars, moreVars>>

\* Announce, "p.lastTimestamp = time.Now().Unix()": the last of the four
\* writes, after which the fields are those of the new announcement.
AnnounceSetTimestamp ==
    /\ gor.pc["sync"] = "setTimestamp"
    /\ publisher' = [publisher EXCEPT !.lastTimestamp = gor.now]
    /\ pubSnap' = pubSnap \cup {CurrentMessage(publisher')}
    /\ gor' = [gor EXCEPT !.pc["sync"] = "publish"]
    /\ UNCHANGED <<mu, pubOut>>
    /\ UNCHANGED <<scanVars, indexApiVars, watchVars, announceVars, saveVars, lockVars, msgVars, recvVars, moreVars>>

\* publishCurrentLocked: nothing is published at version 0 or without a
\* name; otherwise the message is composed from the four fields, signed and
\* handed to node.Publish, which can fail.
PublishCurrentLocked(g, ok) ==
    /\ gor.pc[g] = "publish"
    /\ pubOut' = IF publisher.currentVersion = 0 \/ publisher.currentIPNS = "" \/ ~ok
                 THEN pubOut
                 ELSE Append(pubOut, CurrentMessage(publisher))
    /\ gor' = [gor EXCEPT !.pc[g] = "unlock"]
    /\ UNCHANGED <<publisher, mu, pubSnap>>
    /\ UNCHANGED <<scanVars, indexApiVars, watchVars, announceVars, saveVars, lockVars, msgVars, recvVars, moreVars>>

\* The deferred p.mu.Unlock() of Announce and of publishCurrent.
MuUnlock(g) ==
    /\ gor.pc[g] = "unlock"
    /\ mu' = [mu EXCEPT !.writer = IF @ = g THEN "none" ELSE @]
    /\ gor' = [gor EXCEPT !.pc[g] = IF g = "sync" THEN "idle" ELSE "runlock"]
    /\ UNCHANGED <<publisher, pubOut, pubSnap>>
    /\ UNCHANGED <<scanVars, indexApiVars, watchVars, announceVars, saveVars, lockVars, msgVars, recvVars, moreVars>>

\* announceLoop, "case <-p.ticker.C": the loop goes on to p.mu.RLock().
LoopTick ==
    /\ gor.pc["loop"] = "select"
    /\ gor.ticks < MaxAnnounce
    /\ gor' = [gor EXCEPT !.pc["loop"] = "rlock", !.ticks = @ + 1]
    /\ UNCHANGED <<publisher, mu, pubOut, pubSnap>>
    /\ UNCHANGED <<scanVars, indexApiVars, watchVars, announceVars, saveVars, lockVars, msgVars, recvVars, moreVars>>

\* announceLoop, p.mu.RLock() returns.
LoopRLock ==
    /\ gor.pc["loop"] = "rlock"
    /\ CanRLock(mu)
    /\ mu' = [mu EXCEPT !.readers = @ \cup {"loop"}]
    /\ gor' = [gor EXCEPT !.pc["loop"] = "check"]
    /\ UNCHANGED <<publisher, pubOut, pubSnap>>
    /\ UNCHANGED <<scanVars, indexApiVars, watchVars, announceVars, saveVars, lockVars, msgVars, recvVars, moreVars>>

\* announceLoop, "if p.currentIPNS != "" || p.currentVersion > 0": with
\* something to announce the loop calls publishCurrent, which enters
\* p.mu.Lock() while the loop still holds the read lock.
LoopCheck ==
    /\ gor.pc["loop"] = "check"
    /\ IF publisher.currentIPNS # "" \/ publisher.currentVersion > 0
       THEN /\ gor' = [gor EXCEPT !.pc["loop"] = "lock"]
            /\ mu' = [mu EXCEPT !.pending = @ \cup {"loop"}]
       ELSE /\ gor' = [gor EXCEPT !.pc["loop"] = "runlock"]
            /\ UNCHANGED mu
    /\ UNCHANGED <<publisher, pubOut, pubSnap>>
    /\ UNCHANGED <<scanVars, indexApiVars, watchVars, announceVars, saveVars, lockVars, msgVars, recvVars, moreVars>>

\* announceLoop, p.mu.RUnlock().
LoopRUnlock ==
    /\ gor.pc["loop"] = "runlock"
    /\ mu' = [mu EXCEPT !.readers = @ \ {"loop"}]
    /\ gor' = [gor EXCEPT !.pc["loop"] = "select"]
    /\ UNCHANGED <<publisher, pubOut, pubSnap>>
    /\ UNCHANGED <<scanVars, indexApiVars, watchVars, announceVars, saveVars, lockVars, msgVars, recvVars, moreVars>>

PublisherNext ==
    \/ \E ipns \in AnnounceNames, size \in 1..MaxCalls : AnnounceCall(ipns, size)
    \/ \E g \in Goroutines : MuLock(g)
    \/ AnnounceSetVersion
    \/ AnnounceSetIPNS
    \/ AnnounceSetSize
    \/ AnnounceSetTimestamp
    \/ \E g \in Goroutines, ok \in BOOLEAN : PublishCurrentLocked(g, ok)
    \/ \E g \in Goroutines : MuUnlock(g)
    \/ LoopTick
    \/ LoopRLock
    \/ LoopCheck
    \/ LoopRUnlock

\* ------------------------------------------- the state manager's Save
StatePath == "state.json"

TmpPathSame(path) == path

\* Save, "tmpPath := m.path + ".tmp"".
TmpPath(path) == path \o ".tmp"

\* A file to which n of the MaxChunks writes of state v have been made.
FileContent(v, n) == [of |-> v, len |-> n]

\* The file holding the whole of state v.
Complete(v) == FileContent(v, MaxChunks)

SaveInit ==
    /\ disk = [f \in {StatePath, TmpPath(StatePath)} |-> NoFile]
    /\ saver = [pc |-> "idle", v |-> 0, saves |-> 0, last |-> NoFile, attempted |-> {},
                crashed |-> FALSE]

\* Save is called with a new state in memory; the state is marshalled.
SaveBegin ==
    /\ saver.pc = "idle"
    /\ saver.saves < MaxSaves
    /\ saver' = [saver EXCEPT !.pc = "open", !.v = saver.saves + 1, !.saves = @ + 1,
                              !.attempted = @ \cup {saver.saves + 1}, !.crashed = FALSE]
    /\ UNCHANGED disk
    /\ UNCHANGED <<scanVars, indexApiVars, watchVars, announceVars, pubVars, lockVars, msgVars, recvVars, moreVars>>

\* os.WriteFile(tmpPath, ...) opens the file with O_CREATE|O_TRUNC; on
\* failure Save returns the error.
TmpOpen(ok) ==
    /\ saver.pc = "open"
    /\ IF ok
       THEN /\ disk' = [disk EXCEPT ![TmpPath(StatePath)] = FileContent(saver.v, 0)]
            /\ saver' = [saver EXCEPT !.pc = "write"]
       ELSE /\ saver' = [saver EXCEPT !.pc = "idle"]
            /\ UNCHANGED disk
    /\ UNCHANGED <<scanVars, indexApiVars, watchVars, announceVars, pubVars, lockVars, msgVars, recvVars, moreVars>>

\* os.WriteFile writes the data; a failed write makes Save return the
\* error, leaving the temporary file as it is.
TmpWrite(ok) ==
    /\ saver.pc = "write"
    /\ IF ok
       THEN LET f == TmpPath(StatePath)
                n == disk[f].len + 1
            IN /\ disk' = [disk EXCEPT ![f] = FileContent(saver.v, n)]
               /\ saver' = [saver EXCEPT !.pc = IF n = MaxChunks THEN "rename" ELSE "write"]
       ELSE /\ saver' = [saver EXCEPT !.pc = "idle"]
            /\ UNCHANGED disk
    /\ UNCHANGED <<scanVars, indexApiVars, watchVars, announceVars, pubVars, lockVars, msgVars, recvVars, moreVars>>

\* os.Rename(tmpPath, m.path) replaces the state file in one step; when it
\* fails the temporary file is removed and Save returns the error.
Rename(ok) ==
    /\ saver.pc = "rename"
    /\ IF ok
       THEN /\ disk' = [f \in DOMAIN disk |->
                           IF f = StatePath THEN disk[TmpPath(StatePath)]
                           ELSE NoFile]
            /\ saver' = [saver EXCEPT !.pc = "return"]
       ELSE /\ disk' = [disk EXCEPT ![TmpPath(StatePath)] = NoFile]
            /\ saver' = [saver EXCEPT !.pc = "idle"]
    /\ UNCHANGED <<scanVars, indexApiVars, watchVars, announceVars, pubVars, lockVars, msgVars, recvVars, moreVars>>

\* Save returns nil: this is now the last successful save.
SaveReturn ==
    /\ saver.pc = "return"
    /\ saver' = [saver EXCEPT !.pc = "idle", !.last = Complete(saver.v)]
    /\ UNCHANGED disk
    /\ UNCHANGED <<scanVars, indexApiVars, watchVars, announceVars, pubVars, lockVars, msgVars, recvVars, moreVars>>

\* The process dies at any point of Save; the files stay as they are.
SaveCrash ==
    /\ saver.pc # "idle"
    /\ saver' = [saver EXCEPT !.pc = "idle", !.crashed = TRUE]
    /\ UNCHANGED disk
    /\ UNCHANGED <<scanVars, indexApiVars, watchVars, announceVars, pubVars, lockVars, msgVars, recvVars, moreVars>>

SaveNext ==
    \/ SaveBegin
    \/ \E ok \in BOOLEAN : TmpOpen(ok)
    \/ \E ok \in BOOLEAN : TmpWrite(ok)
    \/ \E ok \in BOOLEAN : Rename(ok)
    \/ SaveReturn
    \/ SaveCrash

\* ------------------------------------------------------- the lock file
Pids == 1..NProcs

\* The positions at which a process is alive: inside Acquire or holding
\* the lock.
Alive == {"stat", "read", "check", "remove", "create", "write", "held"}

LockInit ==
    /\ lockFile = NoFile
    /\ procs = [p \in Pids |-> [pc |-> "new", read |-> 0, alone |-> FALSE, why |-> "none"]]

\* isProcessRunning: signal 0 reaches a process that is alive.
IsProcessRunning(ps, pid) == pid \in DOMAIN ps /\ ps[pid].pc \in Alive

\* A process starts and calls Acquire. It is alone when no other process
\* is alive, and no process alive is alone any longer.
LockStart(p) ==
    /\ procs[p].pc = "new"
    /\ procs' = [q \in Pids |->
                    IF q = p
                    THEN [pc |-> "stat", read |-> 0, why |-> "none",
                          alone |-> \A r \in Pids \ {p} : procs[r].pc \notin Alive]
                    ELSE [procs[q] EXCEPT !.alone = FALSE]]
    /\ UNCHANGED lockFile
    /\ UNCHANGED <<scanVars, indexApiVars, watchVars, announceVars, pubVars, saveVars, msgVars, recvVars, moreVars>>

\* Acquire, "if _, err := os.Stat(l.path); err == nil".
LockStat(p) ==
    /\ procs[p].pc = "stat"
    /\ procs' = [procs EXCEPT ![p].pc = IF lockFile # NoFile THEN "read" ELSE "create"]
    /\ UNCHANGED lockFile
    /\ UNCHANGED <<scanVars, indexApiVars, watchVars, announceVars, pubVars, saveVars, msgVars, recvVars, moreVars>>

\* readPID: the file is read and parsed; a missing file or a file without
\* a number is an error, after which Acquire goes on to create the file.
ReadPID(p) ==
    /\ procs[p].pc = "read"
    /\ procs' = IF lockFile = NoFile \/ lockFile.pid = 0
                THEN [procs EXCEPT ![p].pc = "create"]
                ELSE [procs EXCEPT ![p].pc = "check", ![p].read = lockFile.pid]
    /\ UNCHANGED lockFile
    /\ UNCHANGED <<scanVars, indexApiVars, watchVars, announceVars, pubVars, saveVars, msgVars, recvVars, moreVars>>

\* Acquire, "if l.isProcessRunning(pid)": a running holder makes Acquire
\* fail, and main ends the process.
CheckRunning(p) ==
    /\ procs[p].pc = "check"
    /\ procs' = IF IsProcessRunning(procs, procs[p].read)
                THEN [procs EXCEPT ![p].pc = "failed", ![p].why = "already running"]
                ELSE [procs EXCEPT ![p].pc = "remove"]
    /\ UNCHANGED lockFile
    /\ UNCHANGED <<scanVars, indexApiVars, watchVars, announceVars, pubVars, saveVars, msgVars, recvVars, moreVars>>

\* Acquire, os.Remove(l.path) of the stale file: whatever file is at the
\* path is removed; a missing file is an error that Acquire returns.
RemoveStale(p) ==
    /\ procs[p].pc = "remove"
    /\ IF lockFile = NoFile
       THEN /\ procs' = [procs EXCEPT ![p].pc = "failed", ![p].why = "remove failed"]
            /\ UNCHANGED lockFile
       ELSE /\ procs' = [procs EXCEPT ![p].pc = "create"]
            /\ lockFile' = NoFile
    /\ UNCHANGED <<scanVars, indexApiVars, watchVars, announceVars, pubVars, saveVars, msgVars, recvVars, moreVars>>

\* Acquire, os.OpenFile with O_CREATE|O_EXCL: fails when a file exists.
LockCreate(p) ==
    /\ procs[p].pc = "create"
    /\ IF lockFile # NoFile
       THEN /\ procs' = [procs EXCEPT ![p].pc = "failed", ![p].why = "file exists"]
            /\ UNCHANGED lockFile
       ELSE /\ procs' = [procs EXCEPT ![p].pc = "write"]
            /\ lockFile' = [creator |-> p, pid |-> 0]
    /\ UNCHANGED <<scanVars, indexApiVars, watchVars, announceVars, pubVars, saveVars, msgVars, recvVars, moreVars>>

\* Acquire, the pid is written through the open file and synced, and
\* Acquire returns nil; the write reaches the file at the path only while
\* that is still the file this process created. On a write error the file
\* at the path is removed and Acquire fails.
WritePID(p, ok) ==
    /\ procs[p].pc = "write"
    /\ IF ok
       THEN /\ procs' = [procs EXCEPT ![p].pc = "held"]
            /\ lockFile' = IF lockFile # NoFile /\ lockFile.creator = p
                           THEN [lockFile EXCEPT !.pid = p] ELSE lockFile
       ELSE /\ procs' = [procs EXCEPT ![p].pc = "failed", ![p].why = "write failed"]
            /\ lockFile' = NoFile
    /\ UNCHANGED <<scanVars, indexApiVars, watchVars, announceVars, pubVars, saveVars, msgVars, recvVars, moreVars>>

\* Release, then the process exits: the file at the path is removed.
Release(p) ==
    /\ procs[p].pc = "held"
    /\ procs' = [procs EXCEPT ![p].pc = "exited"]
    /\ lockFile' = NoFile
    /\ UNCHANGED <<scanVars, indexApiVars, watchVars, announceVars, pubVars, saveVars, msgVars, recvVars, moreVars>>

\* The process is killed at any step of Acquire or while holding the lock.
LockCrash(p) ==
    /\ procs[p].pc \in Alive
    /\ procs' = [procs EXCEPT ![p].pc = "dead"]
    /\ UNCHANGED lockFile
    /\ UNCHANGED <<scanVars, indexApiVars, watchVars, announceVars, pubVars, saveVars, msgVars, recvVars, moreVars>>

LockNext ==
    \/ \E p \in Pids : LockStart(p)
    \/ \E p \in Pids : LockStat(p)
    \/ \E p \in Pids : ReadPID(p)
    \/ \E p \in Pids : CheckRunning(p)
    \/ \E p \in Pids : RemoveStale(p)
    \/ \E p \in Pids : LockCreate(p)
    \/ \E p \in Pids, ok \in BOOLEAN : WritePID(p, ok)
    \/ \E p \in Pids : Release(p)
    \/ \E p \in Pids : LockCrash(p)

\* ------------------------------------------- the announcement message
KeyIds == 1..MaxKeys

\* Strings are sequences of characters; "<" is a character that
\* encoding/json escapes, "xFF" a byte that is not valid UTF-8, and
\* "uFFFD" the Unicode replacement character.
IpnsStrings == {<<>>, <<"k">>, <<"k", "<">>, <<"k", "xFF">>, <<"k", "uFFFD">>}

\* privateKey.Public(): the 32 bytes of key pair k's public key.
PublicKeyBytes(k) == [key |-> k, len |-> 32]

\* ed25519.Sign: the 64 bytes of key pair k's signature over data.
Ed25519Sign(k, data) == [signer |-> k, over |-> data, len |-> 64]

\* ed25519.Verify: the signature is 64 bytes made by the key pair of the
\* public key over the same data.
Ed25519Verify(pub, data, sig) ==
    /\ sig.len = 64
    /\ sig.signer = pub.key
    /\ sig.over = data

\* base64.StdEncoding.EncodeToString, and the empty string.
EncodeToString(bytes) == [valid |-> TRUE, bytes |-> bytes]

EmptyString == [valid |-> TRUE, bytes |-> [len |-> 0]]

\* encoding/json's encoding of a string: "<" is written as the escape
\* \u003c, a byte that is not valid UTF-8 as the escape \ufffd, and the
\* replacement character, like any other character, as itself.
JsonQuote(str) ==
    [i \in 1..Len(str) |->
        IF str[i] = "<" THEN "\\u003c"
        ELSE IF str[i] = "xFF" THEN "\\ufffd"
        ELSE str[i]]

\* encoding/json's decoding of a string: escapes become their characters.
JsonUnquote(enc) ==
    [i \in 1..Len(enc) |->
        IF enc[i] = "\\u003c" THEN "<"
        ELSE IF enc[i] = "\\ufffd" THEN "uFFFD"
        ELSE enc[i]]

\* NewAnnouncementMessage
NewAnnouncementMessage(version, ipns, collectionSize, timestamp) ==
    [Version |-> version, IPNS |-> ipns, PublicKey |-> EmptyString,
     CollectionSize |-> collectionSize, Timestamp |-> timestamp,
     Signature |-> EmptyString]

\* getBytesForSigning: json.Marshal of the message without its signature.
GetBytesForSigning(m) ==
    [version |-> m.Version, ipns |-> JsonQuote(m.IPNS), publicKey |-> m.PublicKey,
     collectionSize |-> m.CollectionSize, timestamp |-> m.Timestamp]

\* AnnouncementMessage.Sign with the private key of key pair k.
Sign(m, k) ==
    LET withKey == [m EXCEPT !.PublicKey = EncodeToString(PublicKeyBytes(k))]
    IN [withKey EXCEPT !.Signature =
           EncodeToString(Ed25519Sign(k, GetBytesForSigning(withKey)))]

\* AnnouncementMessage.Verify: "ok" for a nil error.
Verify(m) ==
    IF ~m.PublicKey.valid THEN "failed to decode public key"
    ELSE IF m.PublicKey.bytes.len # 32 THEN "invalid public key size"
    ELSE IF ~m.Signature.valid THEN "failed to decode signature"
    ELSE IF ~Ed25519Verify(m.PublicKey.bytes, GetBytesForSigning(m), m.Signature.bytes)
    THEN "signature verification failed"
    ELSE "ok"

\* AnnouncementMessage.ToJSON: json.Marshal of the six fields.
ToJSON(m) ==
    [version |-> m.Version, ipns |-> JsonQuote(m.IPNS), publicKey |-> m.PublicKey,
     collectionSize |-> m.CollectionSize, timestamp |-> m.Timestamp,
     signature |-> m.Signature]

\* FromJSON: json.Unmarshal into an AnnouncementMessage.
FromJSON(data) ==
    [Version |-> data.version, IPNS |-> JsonUnquote(data.ipns),
     PublicKey |-> data.publicKey, CollectionSize |-> data.collectionSize,
     Timestamp |-> data.timestamp, Signature |-> data.signature]

MsgInit ==
    ann = [stage |-> "none", msg |-> NewAnnouncementMessage(0, <<>>, 0, 0),
           verified |-> "none", parsed |-> "none"]

\* A message is composed from any field values and signed with any key pair.
Compose(version, ipns, collectionSize, timestamp, k) ==
    /\ ann.stage = "none"
    /\ ann' = [ann EXCEPT !.stage = "signed",
                          !.msg = Sign(NewAnnouncementMessage(version, ipns, collectionSize,
                                                              timestamp), k)]
    /\ UNCHANGED <<scanVars, indexApiVars, watchVars, announceVars, pubVars, saveVars,
                   lockVars, recvVars, moreVars>>

\* Verify is called on the signed message.
VerifySigned ==
    /\ ann.stage = "signed"
    /\ ann' = [ann EXCEPT !.stage = "verified", !.verified = Verify(ann.msg)]
    /\ UNCHANGED <<scanVars, indexApiVars, watchVars, announceVars, pubVars, saveVars,
                   lockVars, recvVars, moreVars>>

\* The message goes through ToJSON and FromJSON, and Verify is called on
\* the result.
VerifyParsed ==
    /\ ann.stage = "verified"
    /\ ann' = [ann EXCEPT !.stage = "parsed", !.msg = FromJSON(ToJSON(ann.msg)),
                          !.parsed = Verify(FromJSON(ToJSON(ann.msg)))]
    /\ UNCHANGED <<scanVars, indexApiVars, watchVars, announceVars, pubVars, saveVars,
                   lockVars, recvVars, moreVars>>

MessageNext ==
    \/ \E version \in 0..MaxVersion, ipns \in IpnsStrings, collectionSize \in 0..1,
          timestamp \in 0..1, k \in KeyIds :
          Compose(version, ipns, collectionSize, timestamp, k)
    \/ VerifySigned
    \/ VerifyParsed

\* ------------------------------------------------ the indexer's listener
\* The receiver's clock, and the drift Validate allows, in seconds.
RecvNow == 10

MaxDrift == 3600

\* What a peer can put on the topic: any version, name, key, size,
\* timestamp and signature, well formed or not. The collection size can be
\* absent; an absent number or string parses as 0 or "".
WireVersions == {-1, 0, 1}

WireNames == {<<>>, <<"k2k4r8", "a">>, <<"k51", "a">>}

WireKeys ==
    {EmptyString, EncodeToString(PublicKeyBytes(1)),
     EncodeToString([key |-> 1, len |-> 31]), [valid |-> FALSE, bytes |-> [len |-> 0]]}

WireSizes == {[set |-> FALSE, val |-> 0], [set |-> TRUE, val |-> -1],
              [set |-> TRUE, val |-> 0], [set |-> TRUE, val |-> 2]}

WireTimestamps == {-1, 0, RecvNow, RecvNow + MaxDrift + 1}

\* The message a peer sends: the fields, and a signature that is absent,
\* made with key pair 1 over these fields, made with another key pair, or
\* cut short.
WireMessage(version, ipns, publicKey, size, timestamp, sigKind) ==
    LET unsigned == [version |-> version, ipns |-> ipns, publicKey |-> publicKey,
                     collectionSize |-> size, timestamp |-> timestamp]
    IN [version |-> version, ipns |-> ipns, publicKey |-> publicKey,
        collectionSize |-> size, timestamp |-> timestamp,
        signature |-> IF sigKind = "none" THEN EmptyString
                      ELSE IF sigKind = "good"
                      THEN EncodeToString(Ed25519Sign(1, unsigned))
                      ELSE IF sigKind = "forged"
                      THEN EncodeToString(Ed25519Sign(2, unsigned))
                      ELSE EncodeToString([signer |-> 1, over |-> unsigned, len |-> 63])]

\* handleMessage, json.Unmarshal into the listener's Message.
ParseMessage(data) ==
    [Version |-> data.version, IPNS |-> data.ipns, PublicKey |-> data.publicKey,
     CollectionSize |-> data.collectionSize, Timestamp |-> data.timestamp,
     Signature |-> data.signature]

\* strings.HasPrefix(msg.IPNS, "k2k4r8")
HasNamePrefix(ipns) == Len(ipns) > 0 /\ ipns[1] = "k2k4r8"

\* Listener.validateMessage: TRUE for a nil error.
ValidateMessage(msg) ==
    /\ msg.Version # 0
    /\ msg.IPNS # <<>>
    /\ msg.PublicKey # EmptyString
    /\ msg.Timestamp # 0
    /\ HasNamePrefix(msg.IPNS)

RecvInit == indexer = [collections |-> <<>>, handled |-> 0]

\* Listener.handleMessage: the message is parsed, validated and, when
\* valid, stored as a collection.
HandleMessage(data) ==
    /\ indexer.handled < MaxReceive
    /\ indexer' = [handled |-> indexer.handled + 1,
                   collections |-> IF ValidateMessage(ParseMessage(data))
                                   THEN Append(indexer.collections, ParseMessage(data))
                                   ELSE indexer.collections]
    /\ UNCHANGED <<scanVars, indexApiVars, watchVars, announceVars, pubVars, saveVars,
                   lockVars, msgVars, moreVars>>

IndexerNext ==
    \E version \in WireVersions, ipns \in WireNames, publicKey \in WireKeys,
       size \in WireSizes, timestamp \in WireTimestamps,
       sigKind \in {"none", "good", "forged", "short"} :
       HandleMessage(WireMessage(version, ipns, publicKey, size, timestamp, sigKind))

\* ------------------------------------------------------- indexer: fetcher
CollectionIds == 1..MaxCollections

\* The copies of a row the worker can hold, and the goroutines started on
\* them.  The goroutines are kept as a bag: a function from what a
\* goroutine holds and where it is to the number of such goroutines.
Snapshots ==
    [ID : CollectionIds, RetryCount : 0..(MaxAttempts - 1), LastRetryAt : BOOLEAN]

FetchGoroutines ==
    [pc : {"fetch", "update", "increment", "fail", "release"},
     collection : Snapshots]

NoFetches == [f \in {} |-> 0]

RECURSIVE SumOf(_, _)
SumOf(bag, S) ==
    IF S = {} THEN 0
    ELSE LET f == CHOOSE x \in S : TRUE IN bag[f] + SumOf(bag, S \ {f})

\* The number of running fetchCollection goroutines.
CountOf(bag) == SumOf(bag, DOMAIN bag)

\* go f.fetchCollection(collection)
WithFetch(bag, f) ==
    [x \in DOMAIN bag \cup {f} |->
        IF x = f THEN (IF f \in DOMAIN bag THEN bag[f] + 1 ELSE 1) ELSE bag[x]]

\* A goroutine leaves the bag, or moves on in it.
WithoutFetch(bag, f) ==
    IF bag[f] > 1 THEN [bag EXCEPT ![f] = @ - 1]
    ELSE [x \in DOMAIN bag \ {f} |-> bag[x]]

Moved(bag, f, to) == WithFetch(WithoutFetch(bag, f), [f EXCEPT !.pc = to])

\* NewFetcher has not run: no configuration, no worker, an empty table.
FetchInit ==
    /\ cfg = [RetryAttempts |-> 0, ConcurrentDownloads |-> 0]
    /\ db = <<>>
    /\ worker = [pc |-> "new", todo |-> <<>>, cancelled |-> FALSE]
    /\ semaphore = 0
    /\ fetches = NoFetches

\* DB.CreateCollection: a new row with status 'pending', retry_count 0 and
\* last_retry_at NULL; the id is the next rowid.
CreateCollection ==
    /\ Len(db) < MaxCollections
    /\ db' = Append(db, [status |-> "pending", retry_count |-> 0,
                         last_retry_at |-> FALSE])
    /\ UNCHANGED <<cfg, worker, semaphore, fetches>>
    /\ UNCHANGED <<scanVars, indexApiVars, watchVars, announceVars, pubVars, saveVars,
                   lockVars, msgVars, recvVars, stopVars, restVars>>

\* NewFetcher and Start: the configuration is fixed, the semaphore channel
\* is made with capacity concurrent_downloads, and the worker is started.
FetcherStart(attempts, downloads) ==
    /\ worker.pc = "new"
    /\ cfg' = [RetryAttempts |-> attempts, ConcurrentDownloads |-> downloads]
    /\ worker' = [worker EXCEPT !.pc = "idle"]
    /\ UNCHANGED <<db, semaphore, fetches>>
    /\ UNCHANGED <<scanVars, indexApiVars, watchVars, announceVars, pubVars, saveVars,
                   lockVars, msgVars, recvVars, stopVars, restVars>>

\* DB.GetPendingCollections: the rows with status 'pending' and
\* retry_count < maxRetries, in creation order, as the worker's copies.
RECURSIVE PendingFrom(_, _, _)
PendingFrom(rows, id, maxRetries) ==
    IF id > Len(rows) THEN <<>>
    ELSE IF rows[id].status = "pending" /\ rows[id].retry_count < maxRetries
         THEN <<[ID |-> id, RetryCount |-> rows[id].retry_count,
                 LastRetryAt |-> rows[id].last_retry_at]>>
              \o PendingFrom(rows, id + 1, maxRetries)
         ELSE PendingFrom(rows, id + 1, maxRetries)

GetPendingCollections(rows, maxRetries) == PendingFrom(rows, 1, maxRetries)

\* worker and the head of processPendingCollections: at start and on every
\* tick of the ticker the pending collections are queried; a query error or
\* an empty result returns at once.
ProcessPendingCollections(ok) ==
    /\ worker.pc = "idle"
    /\ LET collections == GetPendingCollections(db, cfg.RetryAttempts)
       IN worker' = IF ok /\ collections # <<>>
                    THEN [worker EXCEPT !.pc = "loop", !.todo = collections]
                    ELSE worker
    /\ ok = FALSE \/ GetPendingCollections(db, cfg.RetryAttempts) # <<>>
    /\ UNCHANGED <<cfg, db, semaphore, fetches>>
    /\ UNCHANGED <<scanVars, indexApiVars, watchVars, announceVars, pubVars, saveVars,
                   lockVars, msgVars, recvVars, stopVars, restVars>>

\* The worker after one element of the list: the next element, or back to
\* the select of worker when the list is done.
AfterElement(w) ==
    [w EXCEPT !.todo = Tail(w.todo),
              !.pc = IF Tail(w.todo) = <<>> THEN "idle" ELSE "loop"]

\* processPendingCollections, "Don't retry too soon": a collection that
\* has been retried before is passed over.
ShouldSkip(collection) == collection.LastRetryAt /\ collection.RetryCount > 0

SkipCollection ==
    /\ worker.pc = "loop"
    /\ ShouldSkip(Head(worker.todo))
    /\ worker' = AfterElement(worker)
    /\ UNCHANGED <<cfg, db, semaphore, fetches>>
    /\ UNCHANGED <<scanVars, indexApiVars, watchVars, announceVars, pubVars, saveVars,
                   lockVars, msgVars, recvVars, stopVars, restVars>>

SemaphoreAlwaysRoom(tokens, capacity) == TRUE

\* A send on the buffered semaphore channel can proceed.
SemaphoreHasRoom(tokens, capacity) == tokens < capacity

\* processPendingCollections, case f.semaphore <- struct{}{}: a token is
\* put in the channel and fetchCollection is started on the worker's copy.
SpawnFetch ==
    /\ worker.pc = "loop"
    /\ ~ShouldSkip(Head(worker.todo))
    /\ SemaphoreHasRoom(semaphore, cfg.ConcurrentDownloads)
    /\ semaphore' = semaphore + 1
    /\ fetches' = WithFetch(fetches, [pc |-> "fetch", collection |-> Head(worker.todo)])
    /\ worker' = AfterElement(worker)
    /\ UNCHANGED <<cfg, db>>
    /\ UNCHANGED <<scanVars, indexApiVars, watchVars, announceVars, pubVars, saveVars,
                   lockVars, msgVars, recvVars, stopVars, restVars>>

\* processPendingCollections, case <-f.ctx.Done(): return.
LoopCancelled ==
    /\ worker.pc = "loop"
    /\ ~ShouldSkip(Head(worker.todo))
    /\ worker.cancelled
    /\ worker' = [worker EXCEPT !.pc = "idle", !.todo = <<>>]
    /\ UNCHANGED <<cfg, db, semaphore, fetches>>
    /\ UNCHANGED <<scanVars, indexApiVars, watchVars, announceVars, pubVars, saveVars,
                   lockVars, msgVars, recvVars, stopVars, restVars>>

\* worker, case <-f.ctx.Done(): the worker returns.
WorkerCancelled ==
    /\ worker.pc = "idle"
    /\ worker.cancelled
    /\ worker' = [worker EXCEPT !.pc = "stopped"]
    /\ UNCHANGED <<cfg, db, semaphore, fetches>>
    /\ UNCHANGED <<scanVars, indexApiVars, watchVars, announceVars, pubVars, saveVars,
                   lockVars, msgVars, recvVars, stopVars, restVars>>

\* Fetcher.Stop: the context is cancelled.
FetcherStop ==
    /\ worker.pc \in {"idle", "loop"}
    /\ ~worker.cancelled
    /\ worker' = [worker EXCEPT !.cancelled = TRUE]
    /\ UNCHANGED <<cfg, db, semaphore, fetches>>
    /\ UNCHANGED <<scanVars, indexApiVars, watchVars, announceVars, pubVars, saveVars,
                   lockVars, msgVars, recvVars, stopVars, restVars>>

\* fetchCollection, steps 1 to 4: resolve, cat, read, parse and store.  Any
\* of them can fail, and the first three fail once the context is cancelled.
Download(g, ok) ==
    /\ g \in DOMAIN fetches /\ g.pc = "fetch"
    /\ ok => ~worker.cancelled
    /\ fetches' = Moved(fetches, g, IF ok THEN "update" ELSE "increment")
    /\ UNCHANGED <<cfg, db, worker, semaphore>>
    /\ UNCHANGED <<scanVars, indexApiVars, watchVars, announceVars, pubVars, saveVars,
                   lockVars, msgVars, recvVars, stopVars, restVars>>

\* DB.UpdateCollectionStatus
UpdateCollectionStatus(rows, id, status) == [rows EXCEPT ![id].status = status]

\* DB.IncrementRetryCount
IncrementRetryCount(rows, id) ==
    [rows EXCEPT ![id].retry_count = @ + 1, ![id].last_retry_at = TRUE]

\* fetchCollection, step 5: the status becomes 'downloaded'.
MarkDownloaded(g, ok) ==
    /\ g \in DOMAIN fetches /\ g.pc = "update"
    /\ db' = IF ok THEN UpdateCollectionStatus(db, g.collection.ID, "downloaded")
             ELSE db
    /\ fetches' = Moved(fetches, g, "release")
    /\ UNCHANGED <<cfg, worker, semaphore>>
    /\ UNCHANGED <<scanVars, indexApiVars, watchVars, announceVars, pubVars, saveVars,
                   lockVars, msgVars, recvVars, stopVars, restVars>>

\* handleFetchError: the worker's copy says the maximum is reached.
ReachedMaxRetries(collection, attempts) == collection.RetryCount + 1 >= attempts

\* handleFetchError: the retry count is incremented in the table; on an
\* error of that statement it returns.
HandleFetchError(g, ok) ==
    /\ g \in DOMAIN fetches /\ g.pc = "increment"
    /\ db' = IF ok THEN IncrementRetryCount(db, g.collection.ID) ELSE db
    /\ fetches' = Moved(fetches, g,
                      IF ok /\ ReachedMaxRetries(g.collection, cfg.RetryAttempts)
                      THEN "fail" ELSE "release")
    /\ UNCHANGED <<cfg, worker, semaphore>>
    /\ UNCHANGED <<scanVars, indexApiVars, watchVars, announceVars, pubVars, saveVars,
                   lockVars, msgVars, recvVars, stopVars, restVars>>

\* handleFetchError: the status becomes 'failed'.
MarkFailed(g, ok) ==
    /\ g \in DOMAIN fetches /\ g.pc = "fail"
    /\ db' = IF ok THEN UpdateCollectionStatus(db, g.collection.ID, "failed")
             ELSE db
    /\ fetches' = Moved(fetches, g, "release")
    /\ UNCHANGED <<cfg, worker, semaphore>>
    /\ UNCHANGED <<scanVars, indexApiVars, watchVars, announceVars, pubVars, saveVars,
                   lockVars, msgVars, recvVars, stopVars, restVars>>

\* fetchCollection returns and its deferred calls run: a token is taken
\* from the semaphore channel, f.wg.Done(), and the goroutine ends.
FetchReturn(g) ==
    /\ g \in DOMAIN fetches /\ g.pc = "release"
    /\ semaphore' = semaphore - 1
    /\ fetches' = WithoutFetch(fetches, g)
    /\ UNCHANGED <<cfg, db, worker>>
    /\ UNCHANGED <<scanVars, indexApiVars, watchVars, announceVars, pubVars, saveVars,
                   lockVars, msgVars, recvVars, stopVars, restVars>>

\* The steps of the worker goroutine.
WorkerStep ==
    \/ \E ok \in BOOLEAN : ProcessPendingCollections(ok)
    \/ SkipCollection
    \/ SpawnFetch
    \/ LoopCancelled
    \/ WorkerCancelled

\* The steps of one fetchCollection goroutine.
FetchStep(g) ==
    \/ \E ok \in BOOLEAN : Download(g, ok)
    \/ \E ok \in BOOLEAN : MarkDownloaded(g, ok)
    \/ \E ok \in BOOLEAN : HandleFetchError(g, ok)
    \/ \E ok \in BOOLEAN : MarkFailed(g, ok)
    \/ FetchReturn(g)

FetcherNext ==
    \/ CreateCollection
    \/ \E attempts \in 1..MaxAttempts, downloads \in 1..MaxDownloads :
          FetcherStart(attempts, downloads)
    \/ WorkerStep
    \/ \E g \in DOMAIN fetches : FetchStep(g)
    \/ FetcherStop

\* ------------------------------------------ startup after a crashed Save
\* json.Unmarshal of a state file: a file that holds the whole of a saved
\* state parses, a truncated one does not.
ParseOk(file) == file.len = MaxChunks

ManagerLoadResetting(files, path) ==
    IF files[path] = NoFile \/ ~ParseOk(files[path])
    THEN [err |-> "none", state |-> NewState]
    ELSE [err |-> "none", state |-> [saved |-> files[path].of]]

\* state Manager.Load on a manager made by state.New: without the file the
\* fresh state stays and Load returns nil; a file that does not parse makes
\* Load return the error; otherwise the state is the file's. Load writes
\* and removes nothing.
ManagerLoad(files, path) ==
    IF files[path] = NoFile THEN [err |-> "none", state |-> NewState]
    ELSE IF ~ParseOk(files[path]) THEN [err |-> "parse", state |-> NewState]
    ELSE [err |-> "none", state |-> [saved |-> files[path].of]]

\* The first process has started in an empty directory.
LoadInit == loader = [pc |-> "running", err |-> "none", state |-> NewState]

\* A new process starts after the previous one died or aborted, and its
\* scan finds files: runScan creates the state manager and calls Load; on
\* an error runScan returns it and main ends the process with
\* logger.Fatalf. (A scan that finds no file returns before the Load.)
Startup ==
    /\ saver.pc = "idle"
    /\ saver.crashed \/ loader.pc = "aborted"
    /\ LET res == ManagerLoad(disk, StatePath)
       IN loader' = [pc |-> IF res.err = "none" THEN "running" ELSE "aborted",
                     err |-> res.err, state |-> res.state]
    /\ saver' = [saver EXCEPT !.crashed = FALSE]
    /\ UNCHANGED disk
    /\ UNCHANGED <<scanVars, indexApiVars, watchVars, announceVars, pubVars, lockVars,
                   msgVars, recvVars, fetchVars, stopVars, filterVars>>

\* The running process calls Save.
SaveCall ==
    /\ loader.pc = "running"
    /\ ~saver.crashed
    /\ SaveBegin

\* While no process runs, state.json is damaged from outside the program
\* (truncated to n of its chunks).
Damage(n) ==
    /\ saver.pc = "idle"
    /\ saver.crashed
    /\ disk[StatePath] # NoFile
    /\ ParseOk(disk[StatePath])
    /\ disk' = [disk EXCEPT ![StatePath] = FileContent(@.of, n)]
    /\ UNCHANGED saver
    /\ UNCHANGED <<scanVars, indexApiVars, watchVars, announceVars, pubVars, lockVars,
                   msgVars, recvVars, moreVars>>

RestartNext ==
    \/ SaveCall
    \/ \E ok \in BOOLEAN : TmpOpen(ok)
    \/ \E ok \in BOOLEAN : TmpWrite(ok)
    \/ \E ok \in BOOLEAN : Rename(ok)
    \/ SaveReturn
    \/ SaveCrash
    \/ \E n \in 0..(MaxChunks - 1) : Damage(n)
    \/ Startup

\* ------------------------------------ the filters of scanner and watcher
\* A filename is a sequence of characters. The characters filenames and
\* configured extensions are drawn from.
Chars == {".", "~", "t", "m", "p", "3", "M"}

\* The basenames checked: every sequence of 1 to MaxNameLen characters.
\* They hold no path separator, so filepath.Base returns them unchanged.
Basenames == UNION {[1..n -> Chars] : n \in 1..MaxNameLen}

\* The extension lists a configuration can name.
ExtensionLists == SUBSET {<<"M", "P", "3">>, <<"t", "m", "p">>}

\* unicode.ToLower on one character.
LowerChar(c) ==
    CASE c = "M" -> "m" [] c = "P" -> "p" [] c = "T" -> "t" [] c = "D" -> "d"
      [] c = "S" -> "s" [] OTHER -> c

\* strings.ToLower
ToLower(str) == [i \in 1..Len(str) |-> LowerChar(str[i])]

\* strings.HasPrefix
HasPrefix(str, prefix) ==
    Len(prefix) <= Len(str) /\ SubSeq(str, 1, Len(prefix)) = prefix

\* strings.HasSuffix
HasSuffix(str, suffix) ==
    Len(suffix) <= Len(str) /\ SubSeq(str, Len(str) - Len(suffix) + 1, Len(str)) = suffix

\* strings.TrimPrefix
TrimPrefix(str, prefix) ==
    IF HasPrefix(str, prefix) THEN SubSeq(str, Len(prefix) + 1, Len(str)) ELSE str

\* filepath.Ext: the suffix beginning at the final dot, empty without a dot.
Ext(name) ==
    LET dots == {i \in 1..Len(name) : name[i] = "."}
    IN IF dots = {} THEN <<>> ELSE SubSeq(name, Max(dots), Len(name))

\* utils.IsHiddenFile
IsHiddenFile(name) == HasPrefix(name, <<".">>)

\* utils.IsTempFile
IsTempFile(name) == HasSuffix(name, <<"~">>)

\* utils.ShouldIgnoreFile, "tempPatterns".
TempPatterns ==
    {<<".", "t", "m", "p">>, <<".", "t", "e", "m", "p">>, <<".", "s", "w", "p">>,
     <<".", "s", "w", "o">>, <<".", "s", "w", "n">>,
     <<".", "D", "S", "_", "S", "t", "o", "r", "e">>,
     <<"T", "h", "u", "m", "b", "s", ".", "d", "b">>,
     <<"d", "e", "s", "k", "t", "o", "p", ".", "i", "n", "i">>}

\* utils.ShouldIgnoreFile
ShouldIgnoreFile(name) ==
    \/ IsHiddenFile(name)
    \/ IsTempFile(name)
    \/ \E pattern \in TempPatterns :
          \/ HasSuffix(ToLower(name), pattern)
          \/ ToLower(name) = ToLower(pattern)

\* scanner.New and NewWatcher, "Build extension map": the keys are the
\* configured extensions in lower case.
ExtensionMap(extensions) == {ToLower(e) : e \in extensions}

\* Scanner.Scan, the walk function from the ignore test to the extension
\* test, for a regular file.
ScannerIncludes(name, extensions) ==
    /\ ~ShouldIgnoreFile(name)
    /\ Ext(name) # <<>>
    /\ ToLower(TrimPrefix(Ext(name), <<".">>)) \in ExtensionMap(extensions)

\* Watcher.hasValidExtension
HasValidExtension(name, extensions) ==
    ToLower(TrimPrefix(Ext(name), <<".">>)) \in ExtensionMap(extensions)

\* Watcher.handleEvent, from "Ignore hidden files and temporary files" to
\* "Check extension", for a notification about a regular file.
WatcherEmits(name, extensions) ==
    /\ ~(HasPrefix(name, <<".">>) \/ HasSuffix(name, <<"~">>))
    /\ HasValidExtension(name, extensions)

FilterInit == filter = [checked |-> FALSE, name |-> <<>>, extensions |-> {},
                        included |-> FALSE, emitted |-> FALSE]

\* A file of the given name is seen by a scanner and by a watcher that
\* were both created with the given extension list.
FilterFile(name, extensions) ==
    /\ ~filter.checked
    /\ filter' = [checked |-> TRUE, name |-> name, extensions |-> extensions,
                  included |-> ScannerIncludes(name, extensions),
                  emitted |-> WatcherEmits(name, extensions)]
    /\ UNCHANGED <<scanVars, indexApiVars, watchVars, announceVars, pubVars, saveVars,
                   lockVars, msgVars, recvVars, fetchVars, stopVars, loadVars>>

FilterNext ==
    /\ ~filter.checked
    /\ \E name \in Basenames, extensions \in ExtensionLists : FilterFile(name, extensions)

\* ---------------------------------------------------------- specifications
Init ==
    /\ ScanInit /\ ApiInit /\ WatchInit /\ PubInit /\ SaveInit /\ LockInit
    /\ MsgInit /\ RecvInit /\ FetchInit /\ StopInit /\ FilterInit /\ LoadInit

\* The publisher: filesystem changes, runs of runScan, process ends.
Next == ScanNext

Spec == Init /\ [][Next]_vars

\* The publisher with its periodic announcements after each run.
SpecAnnounce == Init /\ [][AnnounceNext]_vars

\* The Publisher with one caller of Announce and its announceLoop.
SpecPublisher == Init /\ [][PublisherNext]_vars


\* The steps announceLoop takes after a tick, and those of a caller inside
\* Announce.
LoopStep ==
    \/ LoopRLock
    \/ LoopCheck
    \/ MuLock("loop")
    \/ \E ok \in BOOLEAN : PublishCurrentLocked("loop", ok)
    \/ MuUnlock("loop")
    \/ LoopRUnlock

SyncStep ==
    \/ MuLock("sync")
    \/ AnnounceSetVersion
    \/ AnnounceSetIPNS
    \/ AnnounceSetSize
    \/ AnnounceSetTimestamp
    \/ \E ok \in BOOLEAN : PublishCurrentLocked("sync", ok)
    \/ MuUnlock("sync")

\* The Publisher whose goroutines keep running: a goroutine that can take
\* a step takes it.
SpecPublisherFair ==
    /\ Init /\ [][PublisherNext]_vars
    /\ WF_vars(LoopStep)
    /\ WF_vars(SyncStep)

\* The state manager's Save, step by step, with failures and crashes.
SpecSave == Init /\ [][SaveNext]_vars

\* Processes acquiring and releasing the single-instance lock.
SpecLock == Init /\ [][LockNext]_vars

\* An announcement composed, signed, verified, serialized and parsed.
SpecMessage == Init /\ [][MessageNext]_vars

\* Saves, crashes and restarts of the publisher.
SpecRestart == Init /\ [][RestartNext]_vars

\* A scanner and a watcher deciding about filenames.
SpecFilter == Init /\ [][FilterNext]_vars

\* The indexer's listener handling messages from the topic.
SpecIndexer == Init /\ [][IndexerNext]_vars

\* The indexer's fetcher: announced collections, the worker and its
\* fetchCollection goroutines, statement errors and Stop.
SpecFetcher == Init /\ [][FetcherNext]_vars

\* The worker's steps when every statement on the table succeeds.
WorkerRun ==
    \/ ProcessPendingCollections(TRUE)
    \/ SkipCollection
    \/ SpawnFetch

\* One goroutine's steps when every statement on the table succeeds.
FetchRun(g) ==
    \/ \E ok \in BOOLEAN : Download(g, ok)
    \/ MarkDownloaded(g, TRUE)
    \/ HandleFetchError(g, TRUE)
    \/ MarkFailed(g, TRUE)
    \/ FetchReturn(g)

FetcherRunNext ==
    \/ CreateCollection
    \/ \E attempts \in 1..MaxAttempts, downloads \in 1..MaxDownloads :
          FetcherStart(attempts, downloads)
    \/ WorkerRun
    \/ \E g \in DOMAIN fetches : FetchRun(g)

\* The fetcher that is never stopped and whose table never fails: the
\* ticker keeps firing and every goroutine keeps running.
SpecFetcherRun ==
    /\ Init /\ [][FetcherRunNext]_vars
    /\ WF_vars(WorkerRun)
    /\ \A g \in FetchGoroutines : WF_vars(FetchRun(g))

\* The index manager driven through its operations.
SpecIndex == Init /\ [][IndexNext]_vars

\* The watcher: notifications, debounce timers, the event channel.
SpecWatch == Init /\ [][WatchNext]_vars

\* The watcher and its debouncer on one path.
SpecDebounce == Init /\ [][DebounceNext]_vars

\* The watcher with Watcher.Stop.
SpecWatchStop == Init /\ [][WatchStopNext]_vars


\* ------------------------------------------------------------- properties
\* The files recorded in state.json, none when the file is absent.
DiskFiles == IF stateFile = NoFile THEN EmptyMap ELSE stateFile.Files

\* The version recorded in state.json, 0 when the file is absent.
DiskVersion == IF stateFile = NoFile THEN 0 ELSE stateFile.Version

\* C1: index/state coherence. Once runScan has returned, every path in
\* state.files has exactly one index record whose id is the file's IndexID
\* and whose CID is the file's CID.
IndexStateCoherence ==
    pc = "done" =>
        \A p \in DOMAIN state.Files :
            Cardinality({f \in DOMAIN records :
                            /\ records[f].ID = state.Files[p].IndexID
                            /\ records[f].CID = state.Files[p].CID}) = 1

\* C2: id monotonicity. Every id returned by Add is greater than every id
\* Add returned before, across Delete, Save and Load.
IdMonotonicity ==
    lastAdd.op = "Add" => \A i \in lastAdd.before : i < lastAdd.id

\* C3: version monotonicity. The version in state.json never decreases,
\* the version of a running process never decreases, and the state save
\* that completes a republish (index saved and uploaded, name bound)
\* leaves state.json with a version exactly 1 higher.
VersionMonotonicity ==
    [][/\ DiskVersion' >= DiskVersion
       /\ (pc' # "off" => state'.Version >= state.Version)
       /\ (pc = "saveState" /\ pc' = "done" /\ hist.indexUploaded
              => DiskVersion' = DiskVersion + 1)]_vars

\* C3 witness: a second republish has completed and state.json carries version 2.
VersionAdvancedTwice ==
    /\ pc = "done"
    /\ hist.saved
    /\ hist.indexUploaded
    /\ DiskVersion = 2

\* C4: name binding failure does not block the version increment. When
\* both PublishIPNS calls failed in a run that uploaded the index, the
\* incremented version and the new index address are in state.json once
\* runScan has returned.
NameFailureKeepsVersion ==
    (pc = "done" /\ hist.ipnsFailed /\ hist.indexUploaded) =>
        /\ stateFile # NoFile
        /\ stateFile.Version = state.Version
        /\ stateFile.LastIndexCID = state.LastIndexCID

\* C5: unchanged files are not re-uploaded. When the file loop of a run
\* has ended, the network's add has not been called for any file whose
\* modification time and size equal the ones recorded for it in the loaded
\* state.
UnchangedNotUploaded ==
    pc = "saveIndex" =>
        \A p \in hist.addCalls :
            ~(/\ p \in DOMAIN DiskFiles
              /\ DiskFiles[p].ModTime = fs[p].mtime
              /\ DiskFiles[p].Size = fs[p].data)

\* C5 witness: a run that uploaded some file and skipped another file,
\* which is in the loaded state with the same modification time and size.
UnchangedSkippedWhileOtherUploaded ==
    /\ pc = "saveIndex"
    /\ hist.addCalls # {}
    /\ \E p \in DOMAIN DiskFiles :
          /\ fs[p] # NoFile
          /\ DiskFiles[p].ModTime = fs[p].mtime
          /\ DiskFiles[p].Size = fs[p].data
          /\ p \notin hist.addCalls

\* C6: on subsequent runs unchanged files are skipped. A run that directly
\* follows a run that completed without errors, with no file changed in
\* between, has called the network's add for no file when its file loop
\* has ended.
SubsequentRunSkipsUnchanged ==
    (pc = "saveIndex" /\ hist.cleanStart) => hist.addCalls = {}

\* C7: deleted files are reconciled at startup. Once runScan has returned,
\* a path that was in state.files when the process started and is absent
\* from disk has no record in state, in memory or in state.json, and its
\* index record is not in the index file.
DeletedFilesReconciled ==
    pc = "done" =>
        \A p \in DOMAIN hist.startFiles :
            fs[p] = NoFile =>
                /\ p \notin DOMAIN state.Files
                /\ p \notin DOMAIN DiskFiles
                /\ ~\E r \in indexFile.lines : r.ID = hist.startFiles[p].IndexID

\* C8: crash between index save and state save. When the previous process
\* ended after rewriting the index file and before writing state.json, and
\* no file changed since, then after the next run has saved its state the
\* index file holds the same filenames with the same ids as before.
CrashRecoveryKeepsIds ==
    (pc = "done" /\ hist.saved /\ hist.recovering.exists) =>
        /\ \A r \in hist.recovering.lines :
              \E r2 \in indexFile.lines : r2.Filename = r.Filename /\ r2.ID = r.ID
        /\ Cardinality(indexFile.lines) = Cardinality(hist.recovering.lines)

\* C9: duplicate-basename policy. When a run adds a new file p whose
\* basename is in the loaded index as the record of another path q, the
\* record of q keeps its id and filename, and the record created for p has
\* the path of p relative to the watched root as its filename.
DuplicateBasenamePolicy ==
    [][(pc = "off" /\ pc' = "saveIndex") =>
          \A p \in DOMAIN state'.Files \ DOMAIN DiskFiles :
             \A q \in DOMAIN DiskFiles :
                \A old \in indexFile.lines :
                   (q # p /\ Name(q) = Name(p) /\ old.Filename = Name(q)
                         /\ old.ID = DiskFiles[q].IndexID)
                   => /\ \E f \in DOMAIN records' :
                            /\ records'[f].ID = old.ID
                            /\ records'[f].Filename = old.Filename
                      /\ \E f \in DOMAIN records' :
                            /\ records'[f].ID = state'.Files[p].IndexID
                            /\ records'[f].Filename = RelPath(p)]_vars

\* The number of FileEvents sent for the events of burst b.
EmittedIn(b) ==
    Cardinality({i \in 1..Len(wHist.emitted) : tstate[wHist.emitted[i]].burst = b})

\* No timer of burst b is armed or has its send still ahead.
Settled(b) ==
    \A t \in 1..Len(tstate) :
        tstate[t].burst = b => tstate[t].st \in {"stopped", "sent", "done"}

\* C10: debounce collapsing. For every burst of events on one path, each
\* handled before the delay of the previous one has elapsed, at most one
\* FileEvent is sent, and exactly one once its timers have run.
DebounceCollapsing ==
    \A b \in 1..wHist.bursts :
        /\ EmittedIn(b) <= 1
        /\ (Settled(b) => EmittedIn(b) = 1)

\* C11: periodic heartbeats preserve the timestamp. The announcements a
\* process publishes from its periodic ticker, between which the collection
\* does not change, all carry the same timestamp.
HeartbeatKeepsTimestamp ==
    \A i, j \in 1..Len(announcer.published) :
        announcer.published[i].timestamp = announcer.published[j].timestamp

\* C12: periodic heartbeats preserve the version. A tick of the periodic
\* ticker changes the version neither in memory nor in state.json, and
\* every heartbeat published so far carries the version of state.json.
HeartbeatKeepsVersion ==
    [][announcer'.clock > announcer.clock =>
          /\ state'.Version = state.Version
          /\ DiskVersion' = DiskVersion
          /\ \A i \in 1..Len(announcer'.published) :
                announcer'.published[i].version = DiskVersion']_vars

TwoHeartbeatsSameVersion ==
    /\ Len(announcer.published) = 2
    /\ announcer.published[1].version = announcer.published[2].version
    /\ announcer.published[1].version >= 2

\* C13: consistent snapshot. Every message the Publisher hands to the
\* network carries the four field values as they were before or after an
\* Announce call, never values from the middle of one.
ConsistentSnapshot ==
    \A i \in 1..Len(pubOut) : pubOut[i] \in pubSnap

RepublishedDuringTick ==
    /\ Len(pubOut) = 2
    /\ pubOut[1] # pubOut[2]
    /\ gor.pc["loop"] = "rlock"
    /\ mu.writer = "sync"

\* C14: the announced collection size is the index size. Every published
\* heartbeat carries as collectionSize the number of records of the index.
CollectionSizeIsIndexSize ==
    \A i \in 1..Len(announcer.published) :
        announcer.published[i].collectionSize = Cardinality(indexFile.lines)

\* C15: atomic state writes. At every step of Save, with failures and
\* crashes anywhere, state.json holds the content of the last successful
\* save or the whole of a state a Save was called with.
AtomicStateWrites ==
    \/ disk[StatePath] = saver.last
    \/ \E v \in saver.attempted : disk[StatePath] = Complete(v)

CrashedMidWrite ==
    /\ saver.crashed
    /\ disk[TmpPath(StatePath)] # NoFile
    /\ disk[TmpPath(StatePath)].len < MaxChunks
    /\ saver.last # NoFile
    /\ disk[StatePath] = saver.last

\* C16: single instance. At most one process at a time has returned from
\* Acquire with success and is still running.
SingleInstance ==
    Cardinality({p \in Pids : procs[p].pc = "held"}) <= 1

\* C17: stale lock recovery. An Acquire during which no other process is
\* alive does not fail, unless writing its own pid failed.
StaleLockRecovered ==
    \A p \in Pids :
        (procs[p].pc = "failed" /\ procs[p].alone) => procs[p].why = "write failed"

\* C18: graceful shutdown flushes state. When the process ends on a signal
\* after runScan has loaded the state and finished its uploads, state.json
\* holds the state that was in memory.
ShutdownFlushesState ==
    [][(/\ \/ pc \in {"publishIPNS", "retryIPNS", "saveState"}
           \/ (pc = "done" /\ (hist.saved \/ hist.ipnsFailed))
        /\ pc' = "off")
       => StateLoad(stateFile') = state]_vars

StoredOnlyIfValid ==
    \A i \in 1..Len(indexer.collections) :
        LET m == indexer.collections[i] IN
        /\ m.Version >= 1
        /\ m.IPNS # <<>>
        /\ m.CollectionSize.set /\ m.CollectionSize.val >= 0
        /\ m.Timestamp > 0 /\ m.Timestamp <= RecvNow + MaxDrift
        /\ m.PublicKey.valid /\ m.PublicKey.bytes.len = 32
        /\ m.Signature.valid /\ m.Signature.bytes.len = 64
        /\ Ed25519Verify(m.PublicKey.bytes,
                         [version |-> m.Version, ipns |-> m.IPNS,
                          publicKey |-> m.PublicKey,
                          collectionSize |-> m.CollectionSize,
                          timestamp |-> m.Timestamp],
                         m.Signature.bytes)

\* C21: with a retry limit above 1, a collection whose download has failed
\* is fetched again on later ticks until it is marked failed: a pending
\* collection does not stay pending forever.
PendingIsRetried ==
    \A c \in CollectionIds :
        (worker.pc # "new" /\ c <= Len(db) /\ db[c].status = "pending")
            ~> (c <= Len(db) /\ db[c].status # "pending")

\* C22: a collection's status only changes from pending (to downloaded or
\* to failed), and no goroutine is about to download a collection whose
\* status is downloaded.
StatusLifecycle ==
    [][/\ \A c \in 1..Len(db) :
             db'[c].status # db[c].status => db[c].status = "pending"
       /\ \A g \in DOMAIN fetches' :
             g.pc = "fetch" => db'[g.collection.ID].status # "downloaded"]_vars

NoDuplicateFetch ==
    \A g \in DOMAIN fetches :
        /\ fetches[g] = 1
        /\ \A h \in DOMAIN fetches : h.collection.ID = g.collection.ID => h = g

\* C24: Update of an existing file's record changes only that record's
\* content address: its id, filename and extension, every other record and
\* nextID stay as they were.
UpdatePreservesId ==
    [][\A f \in Filenames, c \in 1..MaxData :
          (ApiUpdate(f, c) /\ f \in DOMAIN records) =>
             /\ nextID' = nextID
             /\ DOMAIN records' = DOMAIN records
             /\ records'[f] = [ID |-> records[f].ID, CID |-> c,
                               Filename |-> records[f].Filename,
                               Extension |-> records[f].Extension]
             /\ \A g \in DOMAIN records \ {f} : records'[g] = records[g]]_vars

\* C24 witness: two files were added and saved, and the last operation
\* updated the first one's address: the saved line holds the old address.
UpdatedOneOfTwo ==
    /\ lastAdd.op = "Update" /\ lastAdd.n = 4
    /\ indexFile.exists
    /\ DOMAIN records = {"a.mp3", "b.mp3"}
    /\ [ID |-> 1, CID |-> 1, Filename |-> "a.mp3", Extension |-> "mp3"] \in indexFile.lines
    /\ records["a.mp3"].ID = 1 /\ records["a.mp3"].CID = 2
    /\ records["b.mp3"] \in indexFile.lines

\* C25: Delete removes only the record under the filename; the other
\* records keep their ids and nextID stays, so the next Add in the same
\* process takes the id after the largest one ever assigned.
DeleteLeavesGap ==
    [][/\ \A f \in Filenames :
             ApiDelete(f) =>
                /\ nextID' = nextID
                /\ DOMAIN records' = DOMAIN records \ {f}
                /\ \A g \in DOMAIN records' : records'[g] = records[g]
       /\ \A f \in Filenames, c \in 1..MaxData :
             ApiAdd(f, c) =>
                /\ lastAdd'.id = nextID
                /\ records'[f].ID = nextID
                /\ nextID' = nextID + 1]_vars

\* C25 witness: ids 1 and 2 were assigned and the record with id 2 has
\* just been deleted: the record with id 1 remains and nextID is 3.
DeletedSecondOfTwo ==
    /\ lastAdd.op = "Delete" /\ lastAdd.n = 3
    /\ lastAdd.before = {1, 2}
    /\ DOMAIN records = {"a.mp3"}
    /\ records["a.mp3"].ID = 1
    /\ nextID = 3

\* The event of burst b handled last.
LastOf(b) == Max(TimersOf(tstate, b))

\* The timer whose callback sent the i-th FileEvent of the event channel.
SenderOf(i) == wHist.emitted[Len(wHist.emitted) - Len(eventChan) + i]

\* C26: debounce keeps the last kind. When the events of a burst on one
\* path have collapsed into one FileEvent, that FileEvent carries the path
\* and the event type of the last event of the burst.
DebounceKeepsLastKind ==
    \A i \in 1..Len(eventChan) :
        LET b == tstate[SenderOf(i)].burst
        IN (Settled(b) /\ EmittedIn(b) = 1) =>
              eventChan[i] = [Path |-> tstate[LastOf(b)].key,
                              EventType |-> tstate[LastOf(b)].kind]

\* C26 witness: a burst of a CREATE followed by a REMOVE has collapsed into
\* one FileEvent, which is in the channel as a delete.
CreateThenRemoveEmitted ==
    \E i \in 1..Len(eventChan) :
        LET b == tstate[SenderOf(i)].burst
        IN /\ Settled(b) /\ EmittedIn(b) = 1
           /\ Cardinality(TimersOf(tstate, b)) = 2
           /\ tstate[Max(TimersOf(tstate, b)) - 1].burst = b
           /\ tstate[Max(TimersOf(tstate, b)) - 1].kind = "EventCreate"
           /\ eventChan[i].EventType = "EventDelete"

\* C29: Stop is safe against pending debounce timers: no callback sends a
\* FileEvent on the event channel after the channel has been closed.
NoSendAfterClose == ~watcher.sentOnClosed

\* The FileRecord of path p in a state, none when the state has no entry.
FileRecordOf(st, p) == IF p \in DOMAIN st.Files THEN {st.Files[p]} ELSE {}

\* What runScan's file loop leaves when it runs on the scanned files other
\* than those in without.
LoopWithout(without, openFail) ==
    ProcessFiles(SelectSeq(Scan(fs), LAMBDA p : p \notin without), fs,
                 [state |-> StateLoad(stateFile), records |-> IndexLoad(indexFile).records,
                  nextID |-> IndexLoad(indexFile).nextID, processedCount |-> 0,
                  skippedCount |-> 0, errorCount |-> 0, addCalls |-> {}],
                 openFail, {})

AnnouncerNeverDeadlocks ==
    /\ (gor.pc["loop"] = "check") ~> (gor.pc["loop"] = "select")
    /\ (gor.pc["sync"] = "lock") ~> (gor.pc["sync"] = "idle")

\* C31: republish order. state.json is written only by the state save at
\* the end of runScan. When the run uploaded files, the index file has been
\* saved and uploaded before, and the last index address written is the
\* address that upload returned, the address of the saved index file.
\* When it uploaded none, the address written is the one state.json held
\* already. The address written is never the empty one.
RepublishOrder ==
    [][/\ (stateFile' # stateFile => pc = "saveState" /\ pc' = "done")
       /\ (pc = "saveState" /\ pc' = "done") =>
             /\ stateFile' # NoFile
             /\ stateFile'.LastIndexCID # NoCID
             /\ IF processedCount > 0
                THEN /\ hist.indexSaved
                     /\ hist.indexUploaded
                     /\ indexCID = IndexCid(indexFile.lines)
                     /\ stateFile'.LastIndexCID = indexCID
                ELSE /\ stateFile # NoFile
                     /\ stateFile'.LastIndexCID = stateFile.LastIndexCID]_vars

\* C31 witness: a second republish has written state.json with the address
\* of the index file it saved and uploaded, which holds two records.
StateSavedAfterSecondUpload ==
    /\ pc = "done"
    /\ hist.saved
    /\ hist.indexUploaded
    /\ hist.runs = 2
    /\ Cardinality(indexFile.lines) = 2
    /\ stateFile.LastIndexCID = IndexCid(indexFile.lines)

\* C32: the name binding retries once, offline. In one run PublishIPNS is
\* called at most twice; the first call has AllowOffline false; a second
\* call is made only after the first one failed and has AllowOffline true;
\* and when the second call failed too the run has ended by returning nil,
\* the process staying up, and no further call is made.
NameBindingRetriesOnce ==
    LET calls == hist.ipnsCalls
    IN /\ Len(calls) <= 2
       /\ Len(calls) >= 1 => ~calls[1].opts.AllowOffline
       /\ Len(calls) = 2 => ~calls[1].ok /\ calls[2].opts.AllowOffline
       /\ (Len(calls) = 1 /\ ~calls[1].ok) => pc = "retryIPNS"
       /\ (Len(calls) = 2 /\ ~calls[2].ok) => pc = "done"

\* C32 witness: both calls failed and runScan has returned.
BothNameCallsFailed ==
    /\ pc = "done"
    /\ Len(hist.ipnsCalls) = 2
    /\ ~hist.ipnsCalls[1].ok
    /\ ~hist.ipnsCalls[2].ok

\* A message has a version of at least 1 and a name.
WellFormed(m) == m.version >= 1 /\ m.ipns # ""

\* C33: every published announcement is well-formed. Every message main's
\* initial and periodic announcements have handed to the pub-sub node, and
\* every message the Publisher has handed to node.Publish, has a version of
\* at least 1 and a non-empty name.
AnnouncementsWellFormed ==
    /\ \A i \in 1..Len(announcer.published) : WellFormed(announcer.published[i])
    /\ \A i \in 1..Len(pubOut) : WellFormed(pubOut[i])

\* C33 witness: a process started without state.json, bound the name in its
\* first republish and published the heartbeat of version 1 at its first tick.
FirstHeartbeatPublished ==
    /\ hist.runs = 1
    /\ announcer.clock = 1
    /\ Len(announcer.published) = 1
    /\ announcer.published[1].version = 1
    /\ announcer.published[1].ipns = IpnsName

\* C34: an unpaired rename is a delete. When handleEvent handles a
\* notification whose operation has the Rename bit and not the Create bit,
\* the event it hands to the debouncer for the path, which the timer's
\* callback sends to the sync engine, is a Delete event.
UnpairedRenameIsDelete ==
    [][\A op \in Ops :
          (HandleEvent("/m/a.mp3", op) /\ "RENAME" \in op /\ "CREATE" \notin op) =>
              /\ Len(tstate') = Len(tstate) + 1
              /\ FileEventOf(tstate', Len(tstate')) =
                    [Path |-> "/m/a.mp3", EventType |-> "EventDelete"]]_vars

\* C35: watcher and scanner filter alike. For every filename and every
\* configured extension list, the watcher emits events for the file
\* exactly when the scanner includes it.
FiltersAlike ==
    filter.checked => (filter.emitted <=> filter.included)

\* C36: leftover temporary files are cleaned at startup. When a process
\* has started and loaded its state, no state.json.tmp is on disk.
TmpCleanedAtStartup ==
    [][(Startup /\ loader'.pc = "running") => disk'[TmpPath(StatePath)] = NoFile]_vars

OneRowPerVersion ==
    \A i, j \in 1..Len(indexer.collections) :
        (/\ indexer.collections[i].PublicKey = indexer.collections[j].PublicKey
         /\ indexer.collections[i].IPNS = indexer.collections[j].IPNS
         /\ indexer.collections[i].Version = indexer.collections[j].Version) => i = j

\* C39: Fetcher.Stop terminates. Once Stop has cancelled the context the
\* worker starts no new fetchCollection.
NoFetchAfterStop ==
    [][worker.cancelled => CountOf(fetches') <= CountOf(fetches)]_vars

====
